---- MODULE Spec2Model ----
(***************************************************************************)
(* Hierarchical cookie cache (CookieConfig) and session reconciler         *)
(* (inject_and_verify_cookies) of browser_launcher/cookies.py.             *)
(*                                                                         *)
(* Python dicts keep insertion order, so a dict is a sequence of           *)
(* [k, v] pairs with distinct keys.  Strings that the code inspects by     *)
(* character (domains, str.endswith) are sequences of one-character        *)
(* strings.  Time is counted in whole seconds.                             *)
(***************************************************************************)
EXTENDS Integers, Sequences, FiniteSets, TLC

VARIABLES
    config_data,        \* CookieConfig.config_data: the users/user/env/cookies tree
    now,                \* datetime.now(timezone.utc), in seconds
    ticks,              \* how often the clock has advanced
    jar,                \* the cookies of the live browser session, in get_cookies() order
    drops,              \* how many cookies the session has lost on its own
    page_domain,        \* the domain of the page the browser is on
    caps,               \* the methods the driver object has
    pc,                 \* position of inject_and_verify_cookies
    user, env,          \* its arguments
    target_domains,     \* its locals ...
    valid_cache,
    cookies_to_inject,
    wi,                 \* index of the write loop (write_cookies_to_browser)
    ri,                 \* index of the read loop
    browser_cookies,
    raised,             \* the exception the call raised, "" when none
    calls,              \* history: driver and store calls of the current run, in order
    config0,            \* history: config_data when the run (or the store call) started
    jar0,               \* history: the browser's cookies when the run started
    now0,               \* history: the clock when the replay candidates were computed
                        \*          (or when the store call was made)
    last_op,            \* history: the last direct call of a CookieConfig method
    op_result,          \* history: what that call returned or raised
    op_count,           \* how many direct calls (or key presses) have been made
    config_file         \* the content of ~/.browser_launcher/config.toml

storeVars   == <<config_data>>
clockVars   == <<now, ticks>>
browserVars == <<jar, drops, page_domain, caps>>
runVars     == <<pc, user, env, target_domains, valid_cache, cookies_to_inject,
                 wi, ri, browser_cookies, raised>>
histVars    == <<calls, config0, jar0, now0>>
opVars      == <<last_op, op_result, op_count>>
fileVars    == <<config_file>>
vars        == <<storeVars, clockVars, browserVars, runVars, histVars, opVars, fileVars>>

-----------------------------------------------------------------------------
(* Bounds and program constants *)

MaxTicks == 1

MaxDrops == 1

DefaultTTL == 28800

-----------------------------------------------------------------------------
(* Strings inspected by character *)

Str_b_c   == <<"b", ".", "c">>                 \* the rule domain, e.g. example.com
Str_a_b_c == <<"a", ".", "b", ".", "c">>       \* a subdomain of it
Str_d_c   == <<"d", ".", "c">>                 \* an unrelated domain
Str_empty == <<>>

\* str.endswith(suffix)
endswith(s, suffix) ==
    /\ Len(suffix) <= Len(s)
    /\ \A i \in 1..Len(suffix) : s[Len(s) - Len(suffix) + i] = suffix[i]

-----------------------------------------------------------------------------
(* Ordered dicts: sequences of [k, v] with distinct keys *)

DictKeys(d) == {d[i].k : i \in DOMAIN d}

DictHas(d, key) == \E i \in DOMAIN d : d[i].k = key

DictGet(d, key) == d[CHOOSE i \in DOMAIN d : d[i].k = key].v

\* mutant: an assignment always adds a pair
DictSet_appends(d, key, val) == Append(d, [k |-> key, v |-> val])

\* mutant: an existing key keeps its value (setdefault)
DictSet_keeps_existing(d, key, val) ==
    IF \E i \in DOMAIN d : d[i].k = key THEN d ELSE Append(d, [k |-> key, v |-> val])

\* d[key] = val: an existing key keeps its position, a new key goes last
DictSet(d, key, val) ==
    IF DictHas(d, key)
    THEN [i \in DOMAIN d |-> IF d[i].k = key THEN [k |-> key, v |-> val] ELSE d[i]]
    ELSE Append(d, [k |-> key, v |-> val])

\* d.update(other)
RECURSIVE DictUpdate(_, _)
DictUpdate(d, other) ==
    IF other = <<>> THEN d
    ELSE DictUpdate(DictSet(d, Head(other).k, Head(other).v), Tail(other))

-----------------------------------------------------------------------------
(* Timestamps.  A persisted timestamp is a string: the sentinel "...", an  *)
(* ISO-8601 text (with or without a UTC offset) or anything else.          *)

Sentinel == "..."

TsSentinel  == [kind |-> "sentinel",  secs |-> 0, tz |-> "none"]
TsMalformed == [kind |-> "malformed", secs |-> 0, tz |-> "none"]
TsIso(secs, tz) == [kind |-> "iso", secs |-> secs, tz |-> tz]

\* datetime.isoformat() of an aware UTC datetime
isoformat(secs) == TsIso(secs, "utc")

\* mutant: every text parses
fromisoformat_never_raises(ts) == FALSE

\* datetime.fromisoformat raises on anything that is not ISO-8601
fromisoformat_raises(ts) == ts.kind # "iso"

\* datetime.fromisoformat, then "if ts.tzinfo is None: ts = ts.replace(tzinfo=utc)"
parse_timestamp(ts) == ts.secs

-----------------------------------------------------------------------------
(* CacheEntry *)

CacheEntry(value, timestamp, ttl_seconds, domain) ==
    [value |-> value, timestamp |-> timestamp, ttl_seconds |-> ttl_seconds,
     domain |-> domain]

\* mutant: an entry is expired only at the moment its age equals its TTL
is_valid_unless_at_ttl(entry, t) == (t - entry.timestamp) # entry.ttl_seconds

\* mutant: an entry whose age equals its TTL still counts as valid
is_valid_inclusive(entry, t) == (t - entry.timestamp) <= entry.ttl_seconds

\* CacheEntry.is_valid(now)
is_valid(entry, t) == (t - entry.timestamp) < entry.ttl_seconds

-----------------------------------------------------------------------------
(* The persisted hierarchy.  config_data is                                *)
(*   [has_users, users: dict user -> dict env -> section]                  *)
(* and a section is [has_cookies, cookies: dict name -> cookie].  A cookie *)
(* is a record holding some of domain, value, timestamp, ttl_seconds.      *)

EmptySection == [has_cookies |-> FALSE, cookies |-> <<>>]

\* config_data.get("users", {}).get(user, {}).get(env, {})
section_get(cd, u, e) ==
    LET users == IF cd.has_users THEN cd.users ELSE <<>>
        envs  == IF DictHas(users, u) THEN DictGet(users, u) ELSE <<>>
    IN  IF DictHas(envs, e) THEN DictGet(envs, e) ELSE EmptySection

\* section.get("cookies", {})
cookies_get(section) == IF section.has_cookies THEN section.cookies ELSE <<>>

\* config_data["users"][user][env]["cookies"] raises KeyError
path_missing(cd, u, e) ==
    \/ ~cd.has_users
    \/ ~DictHas(cd.users, u)
    \/ ~DictHas(DictGet(cd.users, u), e)
    \/ ~DictGet(DictGet(cd.users, u), e).has_cookies

\* config_data.setdefault("users", {}).setdefault(user, {}).setdefault(env, {}),
\* then the section is replaced by sec (the code mutates it in place)
section_set(cd, u, e, sec) ==
    LET users == IF cd.has_users THEN cd.users ELSE <<>>
        envs  == IF DictHas(users, u) THEN DictGet(users, u) ELSE <<>>
    IN  [has_users |-> TRUE, users |-> DictSet(users, u, DictSet(envs, e, sec))]

\* the test shared by get_cache_entries, load_cookie_cache and prune_expired_cookies
has_cached_value(cookie, domain) ==
    /\ "domain" \in DOMAIN cookie
    /\ cookie.domain = domain
    /\ "value" \in DOMAIN cookie
    /\ "timestamp" \in DOMAIN cookie
    /\ cookie.value # Sentinel
    /\ cookie.timestamp # TsSentinel

\* cookie.get("ttl_seconds", 28800)
ttl_of(cookie) ==
    IF "ttl_seconds" \in DOMAIN cookie THEN cookie.ttl_seconds ELSE DefaultTTL

\* CookieConfig.load_cookie_cache
RECURSIVE load_from(_, _)
load_from(cookies, domain) ==
    IF cookies = <<>> THEN <<>>
    ELSE LET name   == Head(cookies).k
             cookie == Head(cookies).v
             rest   == load_from(Tail(cookies), domain)
         IN  IF has_cached_value(cookie, domain)
                /\ ~fromisoformat_raises(cookie.timestamp)
             THEN <<[k |-> name,
                     v |-> CacheEntry(cookie.value, parse_timestamp(cookie.timestamp),
                                      ttl_of(cookie), domain)]>> \o rest
             ELSE rest

load_cookie_cache(cd, u, e, domain) ==
    load_from(cookies_get(section_get(cd, u, e)), domain)

\* mutant: the expiry filter is lost
valid_filter_keeps_expired(cache, t) == cache

\* CookieConfig.get_valid_cookie_cache, with now = t
valid_filter(cache, t) ==
    LET Valid(p) == is_valid(p.v, t) IN SelectSeq(cache, Valid)

get_valid_cookie_cache(cd, u, e, domain, t) ==
    valid_filter(load_cookie_cache(cd, u, e, domain), t)

\* the entry update_cookie_cache stores; ttl is <<>> for None, <<n>> for n
updated_cookie(domain, value, ttl, t) ==
    IF ttl # <<>>
    THEN [domain |-> domain, value |-> value, timestamp |-> isoformat(t),
          ttl_seconds |-> ttl[1]]
    ELSE [domain |-> domain, value |-> value, timestamp |-> isoformat(t)]

\* CookieConfig.update_cookie_cache, with now = t
update_cookie_cache(cd, u, e, domain, name, value, ttl, t) ==
    LET section == section_get(cd, u, e)
        cookies == DictSet(cookies_get(section), name,
                           updated_cookie(domain, value, ttl, t))
    IN  section_set(cd, u, e, [has_cookies |-> TRUE, cookies |-> cookies])

-----------------------------------------------------------------------------
(* The other operations of CookieConfig *)

\* the .get chains of the readers fall back to {} at every level: no store
\* state makes them raise
lookup_raises_on_missing(cd, u, e) == path_missing(cd, u, e)

lookup_raises(cd, u, e) == FALSE

CookieRule(domain, name, variants, ttl_seconds) ==
    [domain |-> domain, name |-> name, variants |-> variants,
     ttl_seconds |-> ttl_seconds]

\* cookie.get("variants", {})
variants_of(cookie) == IF "variants" \in DOMAIN cookie THEN cookie.variants ELSE <<>>

\* cookie.get("domain") == domain
domain_is(cookie, domain) == "domain" \in DOMAIN cookie /\ cookie.domain = domain

\* CookieConfig.get_rules
RECURSIVE rules_from(_, _)
rules_from(cookies, domain) ==
    IF cookies = <<>> THEN <<>>
    ELSE LET name   == Head(cookies).k
             cookie == Head(cookies).v
             rest   == rules_from(Tail(cookies), domain)
         IN  IF domain_is(cookie, domain)
             THEN <<CookieRule(domain, name, variants_of(cookie), ttl_of(cookie))>>
                  \o rest
             ELSE rest

\* mutant: rules are made of the entries that hold a cached value only
get_rules_of_cached(cd, u, e, domain) ==
    LET cache == load_cookie_cache(cd, u, e, domain)
    IN  [i \in DOMAIN cache |->
            CookieRule(domain, cache[i].k, <<>>, cache[i].v.ttl_seconds)]

get_rules(cd, u, e, domain) == rules_from(cookies_get(section_get(cd, u, e)), domain)

\* CookieConfig.get_cache_entries: the entries of load_cookie_cache as a list,
\* built without the domain argument (CacheEntry.domain keeps its default "")
RECURSIVE entries_from(_, _)
entries_from(cookies, domain) ==
    IF cookies = <<>> THEN <<>>
    ELSE LET cookie == Head(cookies).v
             rest   == entries_from(Tail(cookies), domain)
         IN  IF has_cached_value(cookie, domain)
                /\ ~fromisoformat_raises(cookie.timestamp)
             THEN <<CacheEntry(cookie.value, parse_timestamp(cookie.timestamp),
                               ttl_of(cookie), Str_empty)>> \o rest
             ELSE rest

get_cache_entries(cd, u, e, domain) ==
    entries_from(cookies_get(section_get(cd, u, e)), domain)

\* the entry save_cookie_cache stores for one cache entry
saved_cookie(domain, entry) ==
    [domain |-> domain, value |-> entry.value, timestamp |-> isoformat(entry.timestamp)]

\* mutant: the saved cache replaces the cookies of the scope
save_into_replacing(cookies, domain, cache) ==
    [i \in DOMAIN cache |-> [k |-> cache[i].k, v |-> saved_cookie(domain, cache[i].v)]]

\* the loop of save_cookie_cache
RECURSIVE save_into(_, _, _)
save_into(cookies, domain, cache) ==
    IF cache = <<>> THEN cookies
    ELSE save_into(DictSet(cookies, Head(cache).k, saved_cookie(domain, Head(cache).v)),
                   domain, Tail(cache))

\* CookieConfig.save_cookie_cache
save_cookie_cache(cd, u, e, domain, cache) ==
    LET section == section_get(cd, u, e)
    IN  section_set(cd, u, e,
                    [has_cookies |-> TRUE,
                     cookies |-> save_into(cookies_get(section), domain, cache)])

\* mutant: every entry of the scope is removed
clear_from_all(cookies, domain) == <<>>

\* the entries clear_cookie_cache leaves
clear_from(cookies, domain) ==
    LET Kept(p) == ~domain_is(p.v, domain) IN SelectSeq(cookies, Kept)

\* CookieConfig.clear_cookie_cache: the levels down to the scope are created,
\* the "cookies" key is not
clear_cookie_cache(cd, u, e, domain) ==
    LET section == section_get(cd, u, e)
    IN  section_set(cd, u, e,
                    [has_cookies |-> section.has_cookies,
                     cookies |-> clear_from(cookies_get(section), domain)])

\* mutant: the expiry test is applied to the entries of every domain
prune_keeps_any_domain(cookie, domain, t) ==
    IF "domain" \in DOMAIN cookie /\ has_cached_value(cookie, cookie.domain)
    THEN /\ ~fromisoformat_raises(cookie.timestamp)
         /\ is_valid(CacheEntry(cookie.value, parse_timestamp(cookie.timestamp),
                                ttl_of(cookie), Str_empty), t)
    ELSE TRUE

\* one iteration of the loop of prune_expired_cookies: is the cookie copied
\* to valid_cookies?  An unparsable timestamp leaves the iteration by
\* "continue", before the copy.
prune_keeps(cookie, domain, t) ==
    IF has_cached_value(cookie, domain)
    THEN /\ ~fromisoformat_raises(cookie.timestamp)
         /\ is_valid(CacheEntry(cookie.value, parse_timestamp(cookie.timestamp),
                                ttl_of(cookie), Str_empty), t)
    ELSE TRUE

\* CookieConfig.prune_expired_cookies, with now = t
prune_expired_cookies(cd, u, e, domain, t) ==
    LET section == section_get(cd, u, e)
        Kept(p) == prune_keeps(p.v, domain, t)
    IN  section_set(cd, u, e,
                    [has_cookies |-> TRUE,
                     cookies |-> SelectSeq(cookies_get(section), Kept)])

\* "now = now or datetime.now(timezone.utc)"; the argument is <<>> for None
now_or(t_arg, clock) == IF t_arg = <<>> THEN clock ELSE t_arg[1]

-----------------------------------------------------------------------------
(* Optional[List]: None or a list *)

None == [is_none |-> TRUE, list |-> <<>>]
Some(list) == [is_none |-> FALSE, list |-> list]

-----------------------------------------------------------------------------
(* The browser driver, as cookies.py uses it *)

AllCaps == {"get_cookie", "delete_cookie", "add_cookie", "get_cookies"}

BrowserCookie(name, value, domain) ==
    [name |-> name, value |-> value, domain |-> domain]

\* driver.get_cookie(name) is truthy
driver_get_cookie(j, name) == \E i \in DOMAIN j : j[i].name = name

\* driver.delete_cookie(name)
driver_delete_cookie(j, name) ==
    LET Other(c) == c.name # name IN SelectSeq(j, Other)

\* driver.add_cookie({name, value}): no domain is given, the page's domain is used
driver_add_cookie(j, cookie, page) ==
    LET Other(c) == ~(c.name = cookie.name /\ c.domain = page)
    IN  Append(SelectSeq(j, Other), BrowserCookie(cookie.name, cookie.value, page))

\* one entry of the history of calls; result is what a read returned, and
\* for add_cookie the argument it was given
Call(op, name, value, domain, ok, result) ==
    [op |-> op, name |-> name, value |-> value, domain |-> domain, ok |-> ok,
     result |-> result, time |-> now]

-----------------------------------------------------------------------------
(* read_cookies_from_browser: the filter over driver.get_cookies() *)

\* mutant: only the cookies of exactly the requested domain
read_filter_exact(all_cookies, domain) ==
    LET Match(c) == c.domain = domain IN SelectSeq(all_cookies, Match)

read_filter(all_cookies, domain) ==
    LET Match(c) == endswith(c.domain, domain) IN SelectSeq(all_cookies, Match)

-----------------------------------------------------------------------------
(* write_cookies_to_browser: what one iteration of its loop does.          *)
(* outcome is what the driver does when called: "ok", or the call that     *)
(* raises a driver-level error.  The result is [jar, calls, raises].       *)

\* mutant: the domain stays in the cookie handed to the driver
cookie_to_add_keeps_domain(cookie) == cookie

\* cookie_to_add = cookie.copy(); cookie_to_add.pop("domain", None)
cookie_to_add(cookie) == [name |-> cookie.name, value |-> cookie.value]

\* mutant: a driver error ends the batch
on_driver_error_aborts(j, log) ==
    [jar |-> j, calls |-> log, raises |-> "WebDriverException"]

\* except Exception: log and go on with the next cookie
on_driver_error(j, log) == [jar |-> j, calls |-> log, raises |-> ""]

\* except AttributeError: raise
on_attribute_error(j, log) == [jar |-> j, calls |-> log, raises |-> "AttributeError"]

write_one(j, cookie, page, capset, outcome) ==
    LET c     == cookie_to_add(cookie)
        cGet  == Call("get_cookie", c.name, c.value, Str_empty,
                      "get_cookie" \in capset /\ outcome # "get_cookie_fails", <<>>)
        cDel  == Call("delete_cookie", c.name, c.value, Str_empty,
                      "delete_cookie" \in capset /\ outcome # "delete_cookie_fails", <<>>)
        cAdd  == Call("add_cookie", c.name, c.value, Str_empty,
                      "add_cookie" \in capset /\ outcome # "add_cookie_fails", <<c>>)
        found == driver_get_cookie(j, c.name)
        log1  == <<cGet>>
        log2  == IF found THEN <<cGet, cDel>> ELSE <<cGet>>
        j2    == IF found THEN driver_delete_cookie(j, c.name) ELSE j
    IN  IF "get_cookie" \notin capset THEN on_attribute_error(j, log1)
        ELSE IF outcome = "get_cookie_fails" THEN on_driver_error(j, log1)
        ELSE IF found /\ "delete_cookie" \notin capset THEN on_attribute_error(j, log2)
        ELSE IF found /\ outcome = "delete_cookie_fails" THEN on_driver_error(j, log2)
        ELSE IF "add_cookie" \notin capset THEN on_attribute_error(j2, log2 \o <<cAdd>>)
        ELSE IF outcome = "add_cookie_fails" THEN on_driver_error(j2, log2 \o <<cAdd>>)
        ELSE [jar    |-> driver_add_cookie(j2, c, page),
              calls  |-> log2 \o <<cAdd>>,
              raises |-> ""]

WriteOutcomes == {"ok", "get_cookie_fails", "delete_cookie_fails", "add_cookie_fails"}

-----------------------------------------------------------------------------
(* inject_and_verify_cookies: the pure parts *)

\* val["domain"] for val in config_data["users"][user][env]["cookies"].values()
discovery_raises(cd, u, e) ==
    \/ path_missing(cd, u, e)
    \/ \E i \in DOMAIN section_get(cd, u, e).cookies :
          "domain" \notin DOMAIN section_get(cd, u, e).cookies[i].v

discover_domains(cd, u, e) ==
    LET cookies == section_get(cd, u, e).cookies
    IN  [i \in DOMAIN cookies |-> cookies[i].v.domain]

\* valid_cache = {}; for each target domain: valid_cache.update(get_valid_cookie_cache(..))
RECURSIVE collect_valid(_, _, _, _, _, _)
collect_valid(acc, cd, u, e, domains, t) ==
    IF domains = <<>> THEN acc
    ELSE collect_valid(DictUpdate(acc, get_valid_cookie_cache(cd, u, e, Head(domains), t)),
                       cd, u, e, Tail(domains), t)

\* the list of {name, value, domain} handed to write_cookies_to_browser
to_inject(cache) ==
    [i \in DOMAIN cache |->
        [name |-> cache[i].k, value |-> cache[i].v.value, domain |-> cache[i].v.domain]]

\* mutant: every cookie the browser returns is reconciled, tracked or not
is_reconciled_untracked(seen, cache, cookie_entry) ==
    ~\E i \in DOMAIN seen : seen[i].name = cookie_entry.name

\* mutant: a name seen before is reconciled again
is_reconciled_twice(seen, cache, cookie_entry) ==
    DictHas(cache, cookie_entry.name)

\* the test that lets a cookie read from the browser into browser_cookies
is_reconciled(seen, cache, cookie_entry) ==
    /\ ~\E i \in DOMAIN seen : seen[i].name = cookie_entry.name
    /\ DictHas(cache, cookie_entry.name)

\* the inner loop over one read_cookies_from_browser result
RECURSIVE merge_read(_, _, _)
merge_read(seen, cache, browser_cookie_list) ==
    IF browser_cookie_list = <<>> THEN seen
    ELSE merge_read(IF is_reconciled(seen, cache, Head(browser_cookie_list))
                    THEN Append(seen, Head(browser_cookie_list))
                    ELSE seen,
                    cache, Tail(browser_cookie_list))

\* mutant: an entry whose value is unchanged is not written again
RECURSIVE apply_updates_if_changed(_, _, _, _, _)
apply_updates_if_changed(cd, u, e, cookies, t) ==
    IF cookies = <<>> THEN cd
    ELSE LET c   == Head(cookies)
             old == cookies_get(section_get(cd, u, e))
             same == /\ DictHas(old, c.name)
                     /\ "value" \in DOMAIN DictGet(old, c.name)
                     /\ DictGet(old, c.name).value = c.value
         IN  apply_updates_if_changed(
                IF same THEN cd
                ELSE update_cookie_cache(cd, u, e, c.domain, c.name, c.value, <<>>, t),
                u, e, Tail(cookies), t)

\* mutant: the scope is rebuilt from the cookies seen, the others are dropped
apply_updates_replacing_scope(cd, u, e, cookies, t) ==
    section_set(cd, u, e,
        [has_cookies |-> TRUE,
         cookies |-> [i \in DOMAIN cookies |->
                        [k |-> cookies[i].name,
                         v |-> updated_cookie(cookies[i].domain, cookies[i].value,
                                              <<>>, t)]]])

\* the loop of update_cookie_cache calls over browser_cookies, with now = t
RECURSIVE apply_updates(_, _, _, _, _)
apply_updates(cd, u, e, cookies, t) ==
    IF cookies = <<>> THEN cd
    ELSE apply_updates(
            update_cookie_cache(cd, u, e, Head(cookies).domain, Head(cookies).name,
                                Head(cookies).value, <<>>, t),
            u, e, Tail(cookies), t)

update_calls(cookies) ==
    [i \in DOMAIN cookies |->
        Call("update_cookie_cache", cookies[i].name, cookies[i].value,
             cookies[i].domain, TRUE, <<>>)]

\* where the call goes after the replay candidates are known
after_discovery(cache) == IF cache # <<>> THEN "write" ELSE "read"

\* mutant: the write loop ends after its first cookie
after_write_first_only(i, n) == "read"

\* where the call goes after cookie i of n of the write loop
after_write(i, n) == IF i = n THEN "read" ELSE "write"

-----------------------------------------------------------------------------
(* Initial states: a config file as loaded, and a freshly launched browser *)

\* tomli_w.dump(config_data, f) into the freshly opened file: the file holds
\* the whole tree; a dump that raises leaves the file that open() truncated
toml_dump(cd) == [state |-> "complete", data |-> cd]

TruncatedFile == [state |-> "truncated", data |-> [has_users |-> FALSE, users |-> <<>>]]

\* the unit tests build config_data in memory: there is no file
NoFile == [state |-> "absent", data |-> [has_users |-> FALSE, users |-> <<>>]]

\* a direct call of a CookieConfig method (of CacheEntry.is_valid): its name
\* and arguments; what it returned, or the exception it raised
NoOp ==
    [name |-> "", user |-> "", env |-> "", domain |-> <<>>, cookie |-> "",
     value |-> "", ttl |-> <<>>, cache |-> <<>>, t |-> <<>>]

NoResult == [raised |-> "", value |-> <<>>]

Users == {"alice", "bob"}
Envs  == {"prod"}

StartTime == DefaultTTL

\* cookie entries as a config file can hold them
FreshCookie(v)  == [domain |-> Str_b_c, value |-> v, timestamp |-> isoformat(StartTime)]
ExpiredCookie   == [domain |-> Str_b_c, value |-> "v1", timestamp |-> isoformat(0)]
ShortCookie     == [domain |-> Str_b_c, value |-> "v1",
                    timestamp |-> isoformat(StartTime - 1), ttl_seconds |-> 2]
SentinelCookie  == [domain |-> Str_b_c, value |-> Sentinel, timestamp |-> TsSentinel]
MalformedCookie == [domain |-> Str_b_c, value |-> "v1", timestamp |-> TsMalformed]
NaiveSubCookie  == [domain |-> Str_a_b_c, value |-> "v2",
                    timestamp |-> TsIso(StartTime, "naive")]
OtherCookie     == [domain |-> Str_d_c, value |-> "v1",
                    timestamp |-> isoformat(StartTime), ttl_seconds |-> DefaultTTL]
NoDomainCookie  == [value |-> "v1", timestamp |-> isoformat(StartTime)]

InitCookies ==
    {FreshCookie("v1"), ExpiredCookie, ShortCookie, SentinelCookie, MalformedCookie,
     NaiveSubCookie, OtherCookie, NoDomainCookie}

InitSecondCookies == {FreshCookie("v2"), ExpiredCookie, NaiveSubCookie, OtherCookie}

InitCookieDicts ==
    {<<>>}
    \cup {<<[k |-> "sid", v |-> c]>> : c \in InitCookies}
    \cup {<<[k |-> "sid", v |-> c1], [k |-> "tok", v |-> c2]>> :
            c1 \in InitCookies, c2 \in InitSecondCookies}

InitConfigs ==
    {[has_users |-> FALSE, users |-> <<>>],
     [has_users |-> TRUE, users |-> <<>>],
     [has_users |-> TRUE, users |-> <<[k |-> "alice", v |-> <<>>]>>],
     [has_users |-> TRUE,
      users |-> <<[k |-> "alice", v |-> <<[k |-> "prod", v |-> EmptySection]>>]>>]}
    \cup {[has_users |-> TRUE,
           users |-> <<[k |-> "alice",
                        v |-> <<[k |-> "prod",
                                 v |-> [has_cookies |-> TRUE, cookies |-> d]]>>]>>] :
            d \in InitCookieDicts}

ScenarioJar ==
    <<BrowserCookie("sid", "v1", Str_b_c), BrowserCookie("extra", "v2", Str_b_c)>>

InitJars ==
    {<<>>,
     ScenarioJar,
     <<BrowserCookie("sid", "v2", Str_a_b_c), BrowserCookie("sid", "v1", Str_b_c),
       BrowserCookie("tok", "v2", Str_d_c)>>}

InitPages == {Str_b_c, Str_a_b_c}

\* a driver object that lacks a method the code calls
BrokenCaps == {AllCaps \ {"get_cookies"}, AllCaps \ {"add_cookie"}}

InitBrowsers ==
    {[jar |-> j, page |-> p, caps |-> AllCaps] : j \in InitJars, p \in InitPages}
    \cup {[jar |-> ScenarioJar, page |-> Str_b_c, caps |-> c] : c \in BrokenCaps}

Init ==
    /\ config_data \in InitConfigs
    /\ now = StartTime
    /\ ticks = 0
    /\ \E b \in InitBrowsers :
          /\ jar = b.jar
          /\ page_domain = b.page
          /\ caps = b.caps
    /\ drops = 0
    /\ pc = "idle"
    /\ user = "" /\ env = ""
    /\ target_domains = <<>>
    /\ valid_cache = <<>>
    /\ cookies_to_inject = None
    /\ wi = 1 /\ ri = 1
    /\ browser_cookies = <<>>
    /\ raised = ""
    /\ calls = <<>>
    /\ config0 = config_data
    /\ jar0 = jar
    /\ now0 = now
    /\ last_op = NoOp
    /\ op_result = NoResult
    /\ op_count = 0
    /\ config_file = toml_dump(config_data)

-----------------------------------------------------------------------------
(* The clock and the server side of the session *)

Tick ==
    /\ ticks < MaxTicks
    /\ pc \in {"idle", "read"}
    /\ now' = now + 1
    /\ ticks' = ticks + 1
    /\ UNCHANGED <<fileVars, opVars, storeVars, browserVars, runVars, histVars>>

\* the session loses a cookie (the server invalidates it, the page deletes it)
\* after the replay, before the reconciler has read the session back
SessionDrops(i) ==
    /\ pc = "read"
    /\ ri <= Len(target_domains)
    /\ drops < MaxDrops
    /\ i \in DOMAIN jar
    /\ jar' = [k \in 1..(Len(jar) - 1) |-> IF k < i THEN jar[k] ELSE jar[k + 1]]
    /\ drops' = drops + 1
    /\ UNCHANGED <<fileVars, opVars, storeVars, clockVars, page_domain, caps, runVars, histVars>>

-----------------------------------------------------------------------------
(* inject_and_verify_cookies(launcher, user, env, cookie_config) *)

\* entry, domain discovery and the replay candidates (cookies.py 599-621)
IVStart(u, e) ==
    /\ pc = "idle"
    /\ user' = u /\ env' = e
    /\ config0' = config_data
    /\ jar0' = jar
    /\ now0' = now
    /\ calls' = <<>>
    /\ IF discovery_raises(config_data, u, e)
       THEN /\ pc' = "raised"
            /\ raised' = "KeyError"
            /\ UNCHANGED <<target_domains, valid_cache, cookies_to_inject>>
       ELSE LET domains == discover_domains(config_data, u, e)
                cache   == collect_valid(<<>>, config_data, u, e, domains, now)
            IN  /\ target_domains' = domains
                /\ valid_cache' = cache
                /\ cookies_to_inject' =
                      IF cache # <<>> THEN Some(to_inject(cache)) ELSE None
                /\ pc' = after_discovery(cache)
                /\ raised' = ""
    /\ wi' = 1 /\ ri' = 1
    /\ browser_cookies' = <<>>
    /\ UNCHANGED <<fileVars, opVars, storeVars, clockVars, browserVars>>

\* one iteration of the loop of write_cookies_to_browser (cookies.py 517-550)
IVWrite(outcome) ==
    /\ pc = "write"
    /\ wi <= Len(cookies_to_inject.list)
    /\ LET r == write_one(jar, cookies_to_inject.list[wi], page_domain, caps, outcome)
       IN  /\ jar' = r.jar
           /\ calls' = calls \o r.calls
           /\ IF r.raises # ""
              THEN /\ pc' = "raised"
                   /\ raised' = r.raises
                   /\ wi' = wi
              ELSE /\ pc' = after_write(wi, Len(cookies_to_inject.list))
                   /\ raised' = ""
                   /\ wi' = wi + 1
    /\ UNCHANGED <<fileVars, opVars, storeVars, clockVars, drops, page_domain, caps, user, env,
                   target_domains, valid_cache, cookies_to_inject, ri, browser_cookies,
                   config0, jar0, now0>>

\* mutant: the read-back starts while the replay is still going on
IVReadBeforeReplayEnds ==
    /\ pc \in {"write", "read"}
    /\ ri <= Len(target_domains)
    /\ "get_cookies" \in caps
    /\ LET browser_cookie_list == read_filter(jar, target_domains[ri])
       IN  /\ browser_cookies' =
                 merge_read(browser_cookies, valid_cache, browser_cookie_list)
           /\ calls' = Append(calls, Call("get_cookies", "", "", target_domains[ri],
                                          TRUE, browser_cookie_list))
    /\ ri' = ri + 1
    /\ UNCHANGED <<fileVars, opVars, storeVars, clockVars, browserVars, pc, user, env, target_domains,
                   valid_cache, cookies_to_inject, wi, raised, config0, jar0, now0>>

\* one iteration of the read loop (cookies.py 632-639); get_cookies answers
IVRead ==
    /\ pc = "read"
    /\ ri <= Len(target_domains)
    /\ "get_cookies" \in caps
    /\ LET browser_cookie_list == read_filter(jar, target_domains[ri])
       IN  /\ browser_cookies' =
                 merge_read(browser_cookies, valid_cache, browser_cookie_list)
           /\ calls' = Append(calls, Call("get_cookies", "", "", target_domains[ri],
                                          TRUE, browser_cookie_list))
    /\ ri' = ri + 1
    /\ UNCHANGED <<fileVars, opVars, storeVars, clockVars, browserVars, pc, user, env, target_domains,
                   valid_cache, cookies_to_inject, wi, raised, config0, jar0, now0>>

\* mutant: the cookies read so far are cached before the error is raised
IVReadRaisesAfterUpdates ==
    /\ pc = "read"
    /\ ri <= Len(target_domains)
    /\ config_data' = apply_updates(config_data, user, env, browser_cookies, now)
    /\ calls' = Append(calls, Call("get_cookies", "", "", target_domains[ri], FALSE,
                                   <<>>))
    /\ pc' = "raised"
    /\ raised' = IF "get_cookies" \in caps THEN "WebDriverException" ELSE "AttributeError"
    /\ UNCHANGED <<fileVars, opVars, clockVars, browserVars, user, env, target_domains,
                   valid_cache, cookies_to_inject, wi, ri, browser_cookies, config0,
                   jar0, now0>>

\* mutant: a failing get_cookies is swallowed and the loop goes on
IVReadSwallowsError ==
    /\ pc = "read"
    /\ ri <= Len(target_domains)
    /\ calls' = Append(calls, Call("get_cookies", "", "", target_domains[ri], FALSE,
                                   <<>>))
    /\ ri' = ri + 1
    /\ UNCHANGED <<fileVars, opVars, storeVars, clockVars, browserVars, pc, user, env,
                   target_domains, valid_cache, cookies_to_inject, wi, raised,
                   browser_cookies, config0, jar0, now0>>

\* the same iteration when get_cookies raises: AttributeError when the driver
\* has no such method (cookies.py 456-459), a transport error otherwise
IVReadRaises ==
    /\ pc = "read"
    /\ ri <= Len(target_domains)
    /\ calls' = Append(calls, Call("get_cookies", "", "", target_domains[ri], FALSE,
                                   <<>>))
    /\ pc' = "raised"
    /\ raised' = IF "get_cookies" \in caps THEN "WebDriverException" ELSE "AttributeError"
    /\ UNCHANGED <<fileVars, opVars, storeVars, clockVars, browserVars, user, env, target_domains,
                   valid_cache, cookies_to_inject, wi, ri, browser_cookies, config0, jar0, now0>>

\* mutant: the store saves itself after the updates
IVFinishAutosaves ==
    /\ pc = "read"
    /\ ri > Len(target_domains)
    /\ config_data' = apply_updates(config_data, user, env, browser_cookies, now)
    /\ config_file' = [state |-> "complete", data |-> config_data']
    /\ calls' = calls \o update_calls(browser_cookies)
    /\ pc' = "done"
    /\ UNCHANGED <<opVars, clockVars, browserVars, user, env, target_domains,
                   valid_cache, cookies_to_inject, wi, ri, browser_cookies, raised,
                   config0, jar0, now0>>

\* the cache updates and the return (cookies.py 641-666)
IVFinish ==
    /\ pc = "read"
    /\ ri > Len(target_domains)
    /\ config_data' = apply_updates(config_data, user, env, browser_cookies, now)
    /\ calls' = calls \o update_calls(browser_cookies)
    /\ pc' = "done"
    /\ UNCHANGED <<fileVars, opVars, clockVars, browserVars, user, env, target_domains, valid_cache,
                   cookies_to_inject, wi, ri, browser_cookies, raised, config0, jar0, now0>>

Next ==
    \/ Tick
    \/ \E i \in 1..Len(jar) : SessionDrops(i)
    \/ \E u \in Users, e \in Envs : IVStart(u, e)
    \/ \E outcome \in WriteOutcomes : IVWrite(outcome)
    \/ IVRead
    \/ IVReadRaises
    \/ IVFinish

Spec == Init /\ [][Next]_vars

-----------------------------------------------------------------------------
(* Direct calls of the CookieConfig methods on a loaded config, as the     *)
(* unit tests and the CLI make them                                         *)

MaxOps == 2

StoreUsers   == {"alice"}
StoreDomains == {Str_b_c, Str_d_c}
StoreNames   == {"sid", "tok"}
StoreValues  == {"v1", "v2"}
StoreTTLs    == {<<>>, <<2>>}

\* further cookie entries as a config file can hold them
NaiveCookie == [domain |-> Str_b_c, value |-> "v1", timestamp |-> TsIso(StartTime, "naive")]
RuleCookie  == [domain |-> Str_b_c, variants |-> <<[k |-> "chrome", v |-> "sid_chrome"]>>]
OtherExpiredCookie ==
    [domain |-> Str_d_c, value |-> "v1", timestamp |-> isoformat(0)]

StoreFirstCookies ==
    {FreshCookie("v1"), ExpiredCookie, ShortCookie, SentinelCookie, MalformedCookie,
     NaiveCookie, RuleCookie, NoDomainCookie}

StoreSecondCookies == {OtherCookie, OtherExpiredCookie, ShortCookie}

StoreCookieDicts ==
    {<<>>}
    \cup {<<[k |-> "sid", v |-> c]>> : c \in StoreFirstCookies}
    \cup {<<[k |-> "sid", v |-> c1], [k |-> "tok", v |-> c2]>> :
            c1 \in StoreFirstCookies, c2 \in StoreSecondCookies}

StoreConfigs ==
    {[has_users |-> FALSE, users |-> <<>>],
     [has_users |-> TRUE, users |-> <<>>],
     [has_users |-> TRUE, users |-> <<[k |-> "alice", v |-> <<>>]>>],
     [has_users |-> TRUE,
      users |-> <<[k |-> "alice", v |-> <<[k |-> "prod", v |-> EmptySection]>>]>>]}
    \cup {[has_users |-> TRUE,
           users |-> <<[k |-> "alice",
                        v |-> <<[k |-> "prod",
                                 v |-> [has_cookies |-> TRUE, cookies |-> d]]>>]>>] :
            d \in StoreCookieDicts}

\* caches a caller hands to save_cookie_cache besides the one it has loaded
SampleCaches(domain) ==
    {<<>>, <<[k |-> "tok", v |-> CacheEntry("v2", StartTime, 2, domain)]>>}

InitStore ==
    /\ config_data \in StoreConfigs
    /\ now = StartTime
    /\ ticks = 0
    /\ jar = <<>> /\ page_domain = Str_b_c /\ caps = AllCaps
    /\ drops = 0
    /\ pc = "idle"
    /\ user = "" /\ env = ""
    /\ target_domains = <<>>
    /\ valid_cache = <<>>
    /\ cookies_to_inject = None
    /\ wi = 1 /\ ri = 1
    /\ browser_cookies = <<>>
    /\ raised = ""
    /\ calls = <<>>
    /\ config0 = config_data
    /\ jar0 = jar
    /\ now0 = now
    /\ last_op = NoOp
    /\ op_result = NoResult
    /\ op_count = 0
    /\ config_file = NoFile

\* a call: what it was, the store it leaves, what it returns
StoreCall(op, cd, value) ==
    /\ op_count < MaxOps
    /\ op_count' = op_count + 1
    /\ last_op' = op
    /\ op_result' = [raised |-> "", value |-> value]
    /\ config0' = config_data
    /\ now0' = now
    /\ config_data' = cd
    /\ UNCHANGED <<fileVars, clockVars, browserVars, runVars, calls, jar0>>

\* a call of a reader: it returns, or the lookup of the scope raises
ReaderCall(op, value) ==
    /\ op_count < MaxOps
    /\ op_count' = op_count + 1
    /\ last_op' = op
    /\ op_result' = IF lookup_raises(config_data, op.user, op.env)
                    THEN [raised |-> "KeyError", value |-> <<>>]
                    ELSE [raised |-> "", value |-> value]
    /\ config0' = config_data
    /\ now0' = now
    /\ UNCHANGED <<fileVars, storeVars, clockVars, browserVars, runVars, calls, jar0>>

OpOn(name, u, e, domain) ==
    [NoOp EXCEPT !.name = name, !.user = u, !.env = e, !.domain = domain]

GetRules(u, e, domain) ==
    ReaderCall(OpOn("get_rules", u, e, domain), get_rules(config_data, u, e, domain))

GetCacheEntries(u, e, domain) ==
    ReaderCall(OpOn("get_cache_entries", u, e, domain),
               get_cache_entries(config_data, u, e, domain))

LoadCookieCache(u, e, domain) ==
    ReaderCall(OpOn("load_cookie_cache", u, e, domain),
               load_cookie_cache(config_data, u, e, domain))

GetValidCookieCache(u, e, domain) ==
    ReaderCall(OpOn("get_valid_cookie_cache", u, e, domain),
               get_valid_cookie_cache(config_data, u, e, domain, now))

SaveCookieCache(u, e, domain, cache) ==
    StoreCall([OpOn("save_cookie_cache", u, e, domain) EXCEPT !.cache = cache],
              save_cookie_cache(config_data, u, e, domain, cache), <<>>)

UpdateCookieCache(u, e, domain, name, value, ttl) ==
    StoreCall([OpOn("update_cookie_cache", u, e, domain) EXCEPT
                  !.cookie = name, !.value = value, !.ttl = ttl],
              update_cookie_cache(config_data, u, e, domain, name, value, ttl, now),
              <<>>)

ClearCookieCache(u, e, domain) ==
    StoreCall(OpOn("clear_cookie_cache", u, e, domain),
              clear_cookie_cache(config_data, u, e, domain), <<>>)

PruneExpiredCookies(u, e, domain) ==
    StoreCall(OpOn("prune_expired_cookies", u, e, domain),
              prune_expired_cookies(config_data, u, e, domain, now), <<>>)

\* entry.is_valid(now=t) on an entry that was loaded from the store
IsValid(u, e, domain, name, t_arg) ==
    LET cache == load_cookie_cache(config_data, u, e, domain)
    IN  /\ DictHas(cache, name)
        /\ StoreCall([OpOn("is_valid", u, e, domain) EXCEPT
                         !.cookie = name, !.t = t_arg,
                         !.cache = <<[k |-> name, v |-> DictGet(cache, name)]>>],
                     config_data,
                     is_valid(DictGet(cache, name), now_or(t_arg, now)))

\* the reference times is_valid is asked about: the clock (None), the
\* entry's own timestamp, and one second before, at and after its TTL
ReferenceTimes(entry) ==
    {<<>>, <<entry.timestamp>>}
    \cup {<<entry.timestamp + entry.ttl_seconds + k>> : k \in {-1, 0, 1}}

NextStore ==
    \/ Tick
    \/ \E u \in StoreUsers, e \in Envs, d \in StoreDomains :
          \/ GetRules(u, e, d)
          \/ GetCacheEntries(u, e, d)
          \/ LoadCookieCache(u, e, d)
          \/ GetValidCookieCache(u, e, d)
          \/ ClearCookieCache(u, e, d)
          \/ PruneExpiredCookies(u, e, d)
          \/ \E cache \in {load_cookie_cache(config_data, u, e, d)} \cup SampleCaches(d) :
                SaveCookieCache(u, e, d, cache)
          \/ \E name \in StoreNames, value \in StoreValues, ttl \in StoreTTLs :
                UpdateCookieCache(u, e, d, name, value, ttl)
          \/ \E name \in StoreNames :
                \E t_arg \in IF DictHas(load_cookie_cache(config_data, u, e, d), name)
                             THEN ReferenceTimes(DictGet(load_cookie_cache(config_data, u, e, d), name))
                             ELSE {} :
                    IsValid(u, e, d, name, t_arg)

SpecStore == InitStore /\ [][NextStore]_vars

-----------------------------------------------------------------------------
(* cli.py: launch, from the cookie injection on, and                        *)
(* cache_cookies_for_session, the handler of the 's' key                    *)

MaxKeys == 1

\* the orders in which the elements of a Python set can be iterated
Orders(S) ==
    {f \in [1..Cardinality(S) -> S] :
        \A i, j \in 1..Cardinality(S) : f[i] = f[j] => i = j}

\* cookie_config_data["users"][user][env]["cookies"] and val["domain"]
\* raise KeyError
cache_discovery_raises(cd, u, e) ==
    \/ path_missing(cd, u, e)
    \/ \E i \in DOMAIN section_get(cd, u, e).cookies :
          "domain" \notin DOMAIN section_get(cd, u, e).cookies[i].v

\* target_cookies: the rule names
cache_target_cookies(cd, u, e) == DictKeys(section_get(cd, u, e).cookies)

\* the set the list target_domains is made from
cache_target_domains(cd, u, e) ==
    {section_get(cd, u, e).cookies[i].v.domain :
        i \in DOMAIN section_get(cd, u, e).cookies}

\* browser_cookies.extend(read_cookies_from_browser(driver, target_domain))
RECURSIVE read_all(_, _)
read_all(j, domains) ==
    IF domains = <<>> THEN <<>>
    ELSE read_filter(j, Head(domains)) \o read_all(j, Tail(domains))

\* mutant: every occurrence of a tracked name is kept
is_tracked_again(acc, names, cookie) == cookie.name \in names

\* cookie["name"] in target_cookies and not yet in target_browser_cookies
is_tracked(acc, names, cookie) ==
    /\ cookie.name \in names
    /\ ~\E i \in DOMAIN acc : acc[i].name = cookie.name

\* the loop that fills target_browser_cookies
RECURSIVE track(_, _, _)
track(acc, names, cookies) ==
    IF cookies = <<>> THEN acc
    ELSE track(IF is_tracked(acc, names, Head(cookies))
               THEN Append(acc, Head(cookies)) ELSE acc,
               names, Tail(cookies))

\* mutant: the domain the browser reported
cache_update_domain_of_browser(cd, u, e, cookie) == cookie.domain

\* cookie_config_data["users"][user][env]["cookies"][cookie["name"]]["domain"]
cache_update_domain(cd, u, e, cookie) ==
    DictGet(section_get(cd, u, e).cookies, cookie.name).domain

\* the loop of update_cookie_cache calls
RECURSIVE cache_updates(_, _, _, _, _)
cache_updates(cd, u, e, cookies, t) ==
    IF cookies = <<>> THEN cd
    ELSE cache_updates(
            update_cookie_cache(cd, u, e, cache_update_domain(cd, u, e, Head(cookies)),
                                Head(cookies).name, Head(cookies).value, <<>>, t),
            u, e, Tail(cookies), t)

\* the history of these calls
cache_update_calls(cd, u, e, cookies) ==
    [i \in DOMAIN cookies |->
        Call("update_cookie_cache", cookies[i].name, cookies[i].value,
             cache_update_domain(cd, u, e, cookies[i]), TRUE, <<>>)]

\* the history of the reads; the read that raises is the last one attempted
cache_read_calls(j, domains, failing) ==
    [i \in DOMAIN domains |->
        Call("get_cookies", "", "", domains[i], i # failing,
             IF i # failing THEN read_filter(j, domains[i]) ELSE <<>>)]

\* "except Exception as e": printed and logged, nothing propagates
cache_on_error(exc) == ""

\* mutant: the updates and the save go on without a CookieConfig
cache_config_missing_never(has_config) == FALSE

\* "if cookie_config is None:"
cache_config_missing(has_config) == ~has_config

\* what a call of the handler leaves behind
CacheOutcome(cd, file, log, report, cookies, exc) ==
    [config |-> cd, file |-> file, calls |-> log, report |-> report,
     cookies |-> cookies, error |-> exc, raises |-> cache_on_error(exc)]

CacheOutcomes == {"ok", "read_fails", "open_fails", "dump_fails"}

\* cache_cookies_for_session.  order is the iteration order of the set of
\* target domains; outcome is what the environment does: a get_cookies that
\* raises, an open() of the config file that raises, a dump that raises
\* after open() has truncated the file; has_config is cookie_config is not None.
cache_cookies_for_session(cd, file, j, capset, u, e, order, outcome, has_config, t) ==
    IF cache_discovery_raises(cd, u, e)
    THEN CacheOutcome(cd, file, <<>>, "error", <<>>, "KeyError")
    ELSE LET found    == track(<<>>, cache_target_cookies(cd, u, e), read_all(j, order))
             reads    == cache_read_calls(j, order, 0)
             cd2      == cache_updates(cd, u, e, found, t)
             all      == reads \o cache_update_calls(cd, u, e, found)
         IN  IF order # <<>> /\ "get_cookies" \notin capset
             THEN CacheOutcome(cd, file, SubSeq(cache_read_calls(j, order, 1), 1, 1),
                               "error", <<>>, "AttributeError")
             ELSE IF order # <<>> /\ outcome = "read_fails"
             THEN CacheOutcome(cd, file, cache_read_calls(j, order, Len(order)),
                               "error", <<>>, "WebDriverException")
             ELSE IF found = <<>>
             THEN CacheOutcome(cd, file, reads, "none_found", <<>>, "")
             ELSE IF cache_config_missing(has_config)
             THEN CacheOutcome(cd, file, reads, "no_config", found, "")
             ELSE IF outcome = "open_fails"
             THEN CacheOutcome(cd2, file, all, "error", found, "PermissionError")
             ELSE IF outcome = "dump_fails"
             THEN CacheOutcome(cd2, TruncatedFile, all, "error", found, "OSError")
             ELSE CacheOutcome(cd2, toml_dump(cd2), all, "cached", found, "")

\* mutant: a failure of the injection ends launch
launch_after_inject_reraises(exc) == IF exc = "" THEN "loop" ELSE "crashed"

\* launch, "except Exception as e: logger.warning(...)", then the key loop
launch_after_inject(exc) == "loop"

\* config files of a launch
CliCookieDicts ==
    {<<>>,
     <<[k |-> "sid", v |-> FreshCookie("v1")]>>,
     <<[k |-> "sid", v |-> SentinelCookie]>>,
     <<[k |-> "sid", v |-> NoDomainCookie]>>,
     <<[k |-> "sid", v |-> FreshCookie("v1")], [k |-> "tok", v |-> OtherCookie]>>,
     <<[k |-> "sid", v |-> ExpiredCookie], [k |-> "tok", v |-> FreshCookie("v2")]>>,
     <<[k |-> "sid", v |-> ShortCookie], [k |-> "tok", v |-> NaiveSubCookie]>>}

CliConfigs ==
    {[has_users |-> TRUE, users |-> <<>>],
     [has_users |-> TRUE,
      users |-> <<[k |-> "alice", v |-> <<[k |-> "prod", v |-> EmptySection]>>]>>]}
    \cup {[has_users |-> TRUE,
           users |-> <<[k |-> "alice",
                        v |-> <<[k |-> "prod",
                                 v |-> [has_cookies |-> TRUE, cookies |-> d]]>>]>>] :
            d \in CliCookieDicts}

\* a browser that holds a tracked name under two domains and an untracked cookie
CliJar ==
    <<BrowserCookie("sid", "v2", Str_a_b_c), BrowserCookie("sid", "v1", Str_b_c),
      BrowserCookie("tok", "v2", Str_d_c), BrowserCookie("extra", "v1", Str_d_c)>>

CliBrowsers ==
    {[jar |-> j, page |-> Str_b_c, caps |-> AllCaps] : j \in {<<>>, ScenarioJar, CliJar}}
    \cup {[jar |-> ScenarioJar, page |-> Str_b_c, caps |-> AllCaps \ {"get_cookies"}]}

InitCli ==
    /\ config_data \in CliConfigs
    /\ config_file = toml_dump(config_data)
    /\ now = StartTime
    /\ ticks = 0
    /\ \E b \in CliBrowsers :
          /\ jar = b.jar
          /\ page_domain = b.page
          /\ caps = b.caps
    /\ drops = 0
    /\ pc = "idle"
    /\ user = "" /\ env = ""
    /\ target_domains = <<>>
    /\ valid_cache = <<>>
    /\ cookies_to_inject = None
    /\ wi = 1 /\ ri = 1
    /\ browser_cookies = <<>>
    /\ raised = ""
    /\ calls = <<>>
    /\ config0 = config_data
    /\ jar0 = jar
    /\ now0 = now
    /\ last_op = NoOp
    /\ op_result = NoResult
    /\ op_count = 0

\* launch after inject_and_verify_cookies has returned or raised (cli.py 456-469)
LaunchEntersLoop ==
    /\ pc \in {"done", "raised"}
    /\ pc' = launch_after_inject(raised)
    /\ UNCHANGED <<fileVars, opVars, storeVars, clockVars, browserVars, user, env,
                   target_domains, valid_cache, cookies_to_inject, wi, ri,
                   browser_cookies, raised, histVars>>

\* the 's' key (cli.py 518-529)
KeySave(order, outcome, has_config) ==
    /\ pc = "loop"
    /\ op_count < MaxKeys
    /\ LET r == cache_cookies_for_session(config_data, config_file, jar, caps, user,
                                          env, order, outcome, has_config, now)
       IN  /\ config_data' = r.config
           /\ config_file' = r.file
           /\ calls' = r.calls
           /\ op_result' = [raised |-> r.raises,
                            value |-> [report |-> r.report, cookies |-> r.cookies,
                                       error |-> r.error]]
           /\ pc' = IF r.raises = "" THEN "loop" ELSE "crashed"
    /\ last_op' = [NoOp EXCEPT !.name = "cache_cookies_for_session", !.user = user,
                               !.env = env, !.value = outcome,
                               !.cookie = IF has_config THEN "CookieConfig" ELSE "None"]
    /\ op_count' = op_count + 1
    /\ config0' = config_data
    /\ jar0' = jar
    /\ now0' = now
    /\ UNCHANGED <<clockVars, browserVars, user, env, target_domains, valid_cache,
                   cookies_to_inject, wi, ri, browser_cookies, raised>>

\* what a key does to the state of launch: the key, what its handler raised
\* to the loop, and whether a key that stays in the loop is counted
KeyStep(key, exc, value, log) ==
    /\ last_op' = [NoOp EXCEPT !.name = "key", !.value = key]
    /\ op_result' = [raised |-> exc, value |-> value]
    /\ calls' = log
    /\ UNCHANGED <<fileVars, storeVars, clockVars, browserVars, user, env,
                   target_domains, valid_cache, cookies_to_inject, wi, ri,
                   browser_cookies, raised, config0, jar0, now0>>

\* EOF, Ctrl+D or 'q': break (cli.py 499-501)
KeyQuit ==
    /\ pc = "loop"
    /\ pc' = "finally"
    /\ KeyStep("q", "", <<>>, <<>>)
    /\ UNCHANGED op_count

\* EOFError raised in the loop: "except EOFError" (cli.py 535-536)
KeyEOFError ==
    /\ pc = "loop"
    /\ pc' = "finally"
    /\ KeyStep("EOFError", "", <<>>, <<>>)
    /\ UNCHANGED op_count

\* Enter: the screenshot; its exception is printed and raised again
\* (cli.py 502-517)
KeyEnter(fails) ==
    /\ pc = "loop"
    /\ IF fails
       THEN /\ pc' = "finally"
            /\ KeyStep("enter", "Exception", <<>>, <<>>)
            /\ UNCHANGED op_count
       ELSE /\ op_count < MaxKeys
            /\ pc' = "loop"
            /\ KeyStep("enter", "", <<>>, <<>>)
            /\ op_count' = op_count + 1

\* 'c': _dump_cookies_from_browser, whose read_cookies_from_browser(driver, "")
\* stands before its try (cli.py 531-533, cookies.py 707-749)
KeyDump(fails) ==
    /\ pc = "loop"
    /\ IF fails \/ "get_cookies" \notin caps
       THEN /\ pc' = "finally"
            /\ KeyStep("c",
                       IF "get_cookies" \in caps THEN "WebDriverException"
                       ELSE "AttributeError",
                       <<>>,
                       <<Call("get_cookies", "", "", Str_empty, FALSE, <<>>)>>)
            /\ UNCHANGED op_count
       ELSE /\ op_count < MaxKeys
            /\ pc' = "loop"
            /\ KeyStep("c", "", read_filter(jar, Str_empty),
                       <<Call("get_cookies", "", "", Str_empty, TRUE,
                              read_filter(jar, Str_empty))>>)
            /\ op_count' = op_count + 1

\* any other key: no branch of the loop matches
KeyOther ==
    /\ pc = "loop"
    /\ op_count < MaxKeys
    /\ pc' = "loop"
    /\ KeyStep("other", "", <<>>, <<>>)
    /\ op_count' = op_count + 1

\* the finally block: driver.close() in try/except Exception: pass; then
\* launch returns, or the exception that left the loop goes on (cli.py 537-547)
LaunchFinally(close_ok) ==
    /\ pc = "finally"
    /\ calls' = Append(calls, Call("close", "", "", Str_empty, close_ok, <<>>))
    /\ pc' = IF op_result.raised = "" THEN "closed" ELSE "failed"
    /\ UNCHANGED <<fileVars, opVars, storeVars, clockVars, browserVars, user, env,
                   target_domains, valid_cache, cookies_to_inject, wi, ri,
                   browser_cookies, raised, config0, jar0, now0>>

NextCli ==
    \/ Tick
    \/ \E u \in Users, e \in Envs : IVStart(u, e)
    \/ \E outcome \in WriteOutcomes : IVWrite(outcome)
    \/ IVRead
    \/ IVReadRaises
    \/ IVFinish
    \/ LaunchEntersLoop
    \/ \E outcome \in CacheOutcomes, has_config \in BOOLEAN :
          \E order \in IF cache_discovery_raises(config_data, user, env)
                       THEN {<<>>}
                       ELSE Orders(cache_target_domains(config_data, user, env)) :
              KeySave(order, outcome, has_config)
    \/ KeyQuit
    \/ KeyEOFError
    \/ \E fails \in BOOLEAN : KeyEnter(fails)
    \/ \E fails \in BOOLEAN : KeyDump(fails)
    \/ KeyOther
    \/ \E close_ok \in BOOLEAN : LaunchFinally(close_ok)

SpecCli == InitCli /\ [][NextCli]_vars

-----------------------------------------------------------------------------
(* Vocabulary of the properties *)

Ended == pc \in {"done", "raised"}

WriteOps == {"get_cookie", "delete_cookie", "add_cookie"}

CallsOf(ops) == LET Is(c) == c.op \in ops IN SelectSeq(calls, Is)

\* the cookies handed to the write capability: each is looked up first
Replayed == CallsOf({"get_cookie"})

\* everything the reads of the run returned, in order
RECURSIVE Concat(_)
Concat(ss) == IF ss = <<>> THEN <<>> ELSE Head(ss).result \o Concat(Tail(ss))

Observed == Concat(CallsOf({"get_cookies"}))

IsObserved(name) == \E i \in DOMAIN Observed : Observed[i].name = name

FirstObserved(name) ==
    Observed[CHOOSE i \in DOMAIN Observed :
                /\ Observed[i].name = name
                /\ \A j \in 1..(i - 1) : Observed[j].name # name]

\* the scope's cookie map in a tree
ScopeCookies(cd) == cookies_get(section_get(cd, user, env))

\* a cookie of the scope holds a cached value: not a rule-only entry
IsCached(c) ==
    /\ {"domain", "value", "timestamp"} \subseteq DOMAIN c
    /\ c.value # "..."
    /\ c.timestamp.kind = "iso"

AgeAt(c, t) == t - c.timestamp.secs

TtlOf(c) == IF "ttl_seconds" \in DOMAIN c THEN c.ttl_seconds ELSE 28800

\* name was a valid cached entry of the scope when the replay set was computed
ValidAtStart(name) ==
    /\ DictHas(ScopeCookies(config0), name)
    /\ IsCached(DictGet(ScopeCookies(config0), name))
    /\ AgeAt(DictGet(ScopeCookies(config0), name), now0) <
          TtlOf(DictGet(ScopeCookies(config0), name))

ExpiredAtStart(name) ==
    /\ DictHas(ScopeCookies(config0), name)
    /\ IsCached(DictGet(ScopeCookies(config0), name))
    /\ AgeAt(DictGet(ScopeCookies(config0), name), now0) >=
          TtlOf(DictGet(ScopeCookies(config0), name))

CookieNames == {"sid", "tok", "extra"}

-----------------------------------------------------------------------------
(* C1: in every run of inject_and_verify_cookies no add_cookie (or         *)
(* delete_cookie) call follows a get_cookies call, and no get_cookies call *)
(* follows an update_cookie_cache call: replay, then read, then update.    *)
C1_ReplayReadUpdateOrder ==
    \A i \in DOMAIN calls : \A j \in DOMAIN calls :
        i < j =>
            /\ ~(calls[i].op = "get_cookies" /\ calls[j].op \in WriteOps)
            /\ ~(calls[i].op = "update_cookie_cache"
                    /\ calls[j].op \in WriteOps \cup {"get_cookies"})

C1_Witness ==
    /\ pc = "done"
    /\ \E i \in DOMAIN calls : calls[i].op = "add_cookie" /\ calls[i].ok
    /\ \E i \in DOMAIN calls : calls[i].op = "get_cookies"
    /\ \E i \in DOMAIN calls : calls[i].op = "update_cookie_cache"

(* C2: every cookie handed to the write capability is a cached entry of    *)
(* the scope that was non-sentinel and valid when the replay set was       *)
(* computed, and carries the cached value; when no entry is valid no write *)
(* call is made and the browser holds no cookie it did not hold before.    *)
C2_OnlyValidCachedReplayed ==
    /\ \A i \in DOMAIN calls :
          calls[i].op \in WriteOps =>
              /\ ValidAtStart(calls[i].name)
              /\ calls[i].value = DictGet(ScopeCookies(config0), calls[i].name).value
    /\ (\A n \in CookieNames : ~ValidAtStart(n)) =>
          /\ CallsOf(WriteOps) = <<>>
          /\ \A i \in DOMAIN jar : \E j \in DOMAIN jar0 : jar[i] = jar0[j]

C2_Witness ==
    /\ pc = "done"
    /\ \E n \in CookieNames : ExpiredAtStart(n)
    /\ \E m \in CookieNames :
          /\ ValidAtStart(m)
          /\ \E i \in DOMAIN calls :
                calls[i].op = "add_cookie" /\ calls[i].ok /\ calls[i].name = m

(* C3 as stated: with an expired cached entry the reconciler makes no      *)
(* write for it, still reads, and still updates the entry with the value   *)
(* observed in the browser.                                                *)
C3_ExpiredStillUpdated ==
    pc = "done" =>
        \A n \in CookieNames :
            ExpiredAtStart(n) /\ IsObserved(n) =>
                /\ \A i \in DOMAIN calls : calls[i].op \in WriteOps => calls[i].name # n
                /\ DictGet(ScopeCookies(config_data), n).value = FirstObserved(n).value
                /\ DictGet(ScopeCookies(config_data), n).timestamp.secs >= now0

(* C3 amended: with an expired cached entry the reconciler makes no write  *)
(* for it and still reads its domain, but leaves the entry as it was: only *)
(* names of the valid replay set are reconciled.                           *)
C3_ExpiredNotReplayedNotUpdated ==
    \A n \in CookieNames :
        ExpiredAtStart(n) =>
            /\ \A i \in DOMAIN calls : calls[i].op \in WriteOps => calls[i].name # n
            /\ DictHas(ScopeCookies(config_data), n)
            /\ DictGet(ScopeCookies(config_data), n) = DictGet(ScopeCookies(config0), n)
            /\ pc = "done" =>
                  \E i \in DOMAIN calls :
                      /\ calls[i].op = "get_cookies" /\ calls[i].ok
                      /\ calls[i].domain = DictGet(ScopeCookies(config0), n).domain

C3_Witness ==
    /\ pc = "done"
    /\ \E n \in CookieNames : ExpiredAtStart(n) /\ IsObserved(n)

(* C4: after a normal return, every name of the replay set that a read     *)
(* returned has its store entry set to the value observed (first           *)
(* occurrence) and stamped with the time of the update, also when the      *)
(* value is the cached one.                                                *)
C4_ObservedEntriesRestamped ==
    pc = "done" =>
        \A n \in CookieNames :
            ValidAtStart(n) /\ IsObserved(n) =>
                /\ DictHas(ScopeCookies(config_data), n)
                /\ DictGet(ScopeCookies(config_data), n).value = FirstObserved(n).value
                /\ \E k \in DOMAIN calls :
                      /\ calls[k].op = "update_cookie_cache"
                      /\ calls[k].name = n
                      /\ calls[k].time = now
                      /\ DictGet(ScopeCookies(config_data), n).timestamp =
                            [kind |-> "iso", secs |-> calls[k].time, tz |-> "utc"]

C4_Witness ==
    /\ pc = "done"
    /\ now > now0
    /\ \E n \in CookieNames :
          /\ ValidAtStart(n) /\ IsObserved(n)
          /\ FirstObserved(n).value = DictGet(ScopeCookies(config0), n).value
          /\ DictGet(ScopeCookies(config_data), n).timestamp.secs = now

(* C5: the reconciler never adds a cookie name to the scope: the names of  *)
(* the scope are those it had when the call started.                       *)
C5_NoNewNames ==
    DictKeys(ScopeCookies(config_data)) = DictKeys(ScopeCookies(config0))

C5_Witness ==
    /\ pc = "done"
    /\ \E i \in DOMAIN Observed :
          Observed[i].name \notin DictKeys(ScopeCookies(config0))
    /\ CallsOf({"update_cookie_cache"}) # <<>>

(* C6: a cookie that was replayed and that no read returned keeps its      *)
(* store entry exactly as it was before the call.                          *)
C6_UnobservedEntryKept ==
    pc = "done" =>
        \A n \in CookieNames :
            (\E i \in DOMAIN Replayed : Replayed[i].name = n) /\ ~IsObserved(n) =>
                /\ DictHas(ScopeCookies(config_data), n)
                /\ DictGet(ScopeCookies(config_data), n) =
                      DictGet(ScopeCookies(config0), n)

C6_Witness ==
    /\ pc = "done"
    /\ \E n \in CookieNames :
          /\ \E i \in DOMAIN calls :
                calls[i].op = "add_cookie" /\ calls[i].ok /\ calls[i].name = n
          /\ ~IsObserved(n)
    /\ CallsOf({"get_cookies"}) # <<>>

(* C7: update_cookie_cache is called at most once per cookie name in a     *)
(* run, with the value and domain of the first occurrence read.            *)
C7_OneUpdatePerName ==
    LET ups == CallsOf({"update_cookie_cache"})
    IN  /\ \A i \in DOMAIN ups : \A j \in DOMAIN ups :
              i # j => ups[i].name # ups[j].name
        /\ \A i \in DOMAIN ups :
              /\ IsObserved(ups[i].name)
              /\ ups[i].value = FirstObserved(ups[i].name).value
              /\ ups[i].domain = FirstObserved(ups[i].name).domain

C7_Witness ==
    /\ pc = "done"
    /\ \E i \in DOMAIN Observed : \E j \in DOMAIN Observed :
          /\ i < j
          /\ Observed[i].name = Observed[j].name
          /\ Observed[i].value # Observed[j].value
          /\ \E k \in DOMAIN calls :
                calls[k].op = "update_cookie_cache" /\ calls[k].name = Observed[i].name

NameValues(cs) == [i \in DOMAIN cs |-> [name |-> cs[i].name, value |-> cs[i].value]]

C9_NothingConfiguredIsNoOp ==
    Ended /\ (path_missing(config0, user, env) \/ ScopeCookies(config0) = <<>>) =>
        /\ pc = "done"
        /\ CallsOf(WriteOps \cup {"update_cookie_cache"}) = <<>>
        /\ config_data = config0

\* a call of the write capability failed with a driver-level error
DriverFailedWrite ==
    \E k \in DOMAIN calls :
        calls[k].op \in WriteOps /\ ~calls[k].ok /\ calls[k].op \in caps

\* the driver lacks a method of the write capability: AttributeError propagates
AttributeErrorInReplay ==
    pc = "raised" /\ raised = "AttributeError" /\ CallsOf({"get_cookies"}) = <<>>

(* C10: a driver-level error of get_cookie, delete_cookie or add_cookie    *)
(* for one cookie never ends the replay: every cookie of the batch is      *)
(* still attempted and the verification phase is still entered.            *)
C10_BadCookieDoesNotAbort ==
    /\ pc = "raised" /\ raised = "WebDriverException" =>
          calls[Len(calls)].op = "get_cookies"
    /\ Ended /\ DriverFailedWrite /\ ~AttributeErrorInReplay =>
          /\ Len(Replayed) = Len(cookies_to_inject.list)
          /\ CallsOf({"get_cookies"}) # <<>>

C10_Witness ==
    /\ pc = "done"
    /\ Len(Replayed) = 2
    /\ \E k \in DOMAIN calls :
          /\ calls[k].op \in WriteOps /\ ~calls[k].ok
          /\ calls[k].name = Replayed[1].name
    /\ \E k \in DOMAIN calls :
          /\ calls[k].op = "add_cookie" /\ calls[k].ok
          /\ calls[k].name = Replayed[2].name

\* C11: when the driver object has no get_cookies method, a run that attempts
\* the read-back ends by raising AttributeError to its caller: the error is
\* not swallowed, the run never completes, and the store is left as it was.
\* Only a run that has no domain to read completes on such a driver.
C11_MissingReadCapabilityPropagates ==
    "get_cookies" \notin caps =>
        /\ (\E i \in DOMAIN calls : calls[i].op = "get_cookies") =>
              /\ pc = "raised"
              /\ raised = "AttributeError"
              /\ ~calls[Len(calls)].ok
              /\ config_data = config0
        /\ pc = "done" => target_domains = <<>>

\* a replay succeeded, then the read-back hit the missing method
C11_Witness ==
    /\ "get_cookies" \notin caps
    /\ pc = "raised"
    /\ raised = "AttributeError"
    /\ \E i \in DOMAIN calls : calls[i].op = "add_cookie" /\ calls[i].ok
    /\ calls[Len(calls)].op = "get_cookies"
    /\ ~calls[Len(calls)].ok

-----------------------------------------------------------------------------
(* Vocabulary of the properties of the direct calls *)

\* the cookies of the scope the last call named, before and after it
OpBefore == cookies_get(section_get(config0, last_op.user, last_op.env))

OpAfter == cookies_get(section_get(config_data, last_op.user, last_op.env))

\* the entry is_valid was called on, the reference time it used, the age
OpEntry == last_op.cache[1].v

OpTime == IF last_op.t = <<>> THEN now0 ELSE last_op.t[1]

OpAge == OpTime - OpEntry.timestamp

\* C12: is_valid(now) of an entry with ttl_seconds = T holds exactly when the
\* age now - timestamp is strictly less than T: it holds at T-1 seconds, it
\* fails at exactly T and at T+1 seconds, and an entry stamped now with T > 0
\* is valid.
C12_ValidExactlyBelowTTL ==
    last_op.name = "is_valid" =>
        /\ op_result.raised = ""
        /\ op_result.value = (OpAge < OpEntry.ttl_seconds)
        /\ OpAge = OpEntry.ttl_seconds - 1 => op_result.value
        /\ OpAge = OpEntry.ttl_seconds => ~op_result.value
        /\ OpAge = OpEntry.ttl_seconds + 1 => ~op_result.value
        /\ (OpAge = 0 /\ OpEntry.ttl_seconds > 0) => op_result.value

\* an entry asked at exactly its TTL
C12_Witness ==
    /\ last_op.name = "is_valid"
    /\ OpAge = OpEntry.ttl_seconds
    /\ ~op_result.value

\* C13: update_cookie_cache is an upsert keyed by the cookie name within the
\* scope.  Every scope holds at most one entry per name; after a call the
\* entry of that name carries the given domain and value and the time of the
\* call, the number of entries has grown by one if the name was new and not
\* at all if it was not, and the entries of the other names are as before.
C13_UpdateIsUpsertByName ==
    /\ \A u \in Users, e \in Envs :
          LET cookies == cookies_get(section_get(config_data, u, e))
          IN  \A i, j \in DOMAIN cookies : cookies[i].k = cookies[j].k => i = j
    /\ last_op.name = "update_cookie_cache" =>
          /\ DictHas(OpAfter, last_op.cookie)
          /\ DictGet(OpAfter, last_op.cookie).value = last_op.value
          /\ DictGet(OpAfter, last_op.cookie).domain = last_op.domain
          /\ DictGet(OpAfter, last_op.cookie).timestamp = [kind |-> "iso", secs |-> now0,
                                                           tz |-> "utc"]
          /\ Len(OpAfter) =
                Len(OpBefore) + (IF DictHas(OpBefore, last_op.cookie) THEN 0 ELSE 1)
          /\ \A i \in DOMAIN OpBefore :
                OpBefore[i].k # last_op.cookie => OpAfter[i] = OpBefore[i]

\* the second of two calls replaces the value the first one stored, later
C13_Witness ==
    /\ last_op.name = "update_cookie_cache"
    /\ op_count = 2
    /\ now0 > StartTime
    /\ DictHas(OpBefore, last_op.cookie)
    /\ DictGet(OpBefore, last_op.cookie) =
          [domain |-> last_op.domain, value |-> "v1",
           timestamp |-> [kind |-> "iso", secs |-> StartTime, tz |-> "utc"]]
    /\ last_op.value = "v2"
    /\ Len(OpAfter) = Len(OpBefore)

\* C14: update_cookie_cache with a ttl_seconds argument sets the entry's TTL
\* to it; with ttl_seconds = None on an entry that has an explicit
\* ttl_seconds it leaves that TTL as it was.
C14_NoneKeepsExplicitTTL ==
    last_op.name = "update_cookie_cache" =>
        /\ last_op.ttl # <<>> =>
              /\ "ttl_seconds" \in DOMAIN DictGet(OpAfter, last_op.cookie)
              /\ DictGet(OpAfter, last_op.cookie).ttl_seconds = last_op.ttl[1]
        /\ (/\ last_op.ttl = <<>>
            /\ DictHas(OpBefore, last_op.cookie)
            /\ "ttl_seconds" \in DOMAIN DictGet(OpBefore, last_op.cookie)) =>
              /\ "ttl_seconds" \in DOMAIN DictGet(OpAfter, last_op.cookie)
              /\ DictGet(OpAfter, last_op.cookie).ttl_seconds =
                    DictGet(OpBefore, last_op.cookie).ttl_seconds

\* C15: clear_cookie_cache(u, e, d) removes every entry of the scope whose
\* domain is d and no other entry: the entries of other domains (and those
\* without a domain) stay as they were, in their order, and
\* load_cookie_cache of any other domain returns what it returned before.
C15_ClearRemovesOnlyDomain ==
    last_op.name = "clear_cookie_cache" =>
        LET OfDomain(p) == "domain" \in DOMAIN p.v /\ p.v.domain = last_op.domain
            Other(p)    == ~OfDomain(p)
        IN  /\ \A i \in DOMAIN OpAfter : ~OfDomain(OpAfter[i])
            /\ OpAfter = SelectSeq(OpBefore, Other)
            /\ \A d \in (StoreDomains \cup {Str_a_b_c}) \ {last_op.domain} :
                  load_cookie_cache(config_data, last_op.user, last_op.env, d) =
                     load_cookie_cache(config0, last_op.user, last_op.env, d)

\* an entry of the domain went, an entry of another domain stayed
C15_Witness ==
    /\ last_op.name = "clear_cookie_cache"
    /\ Len(OpBefore) = 2
    /\ Len(OpAfter) = 1
    /\ "domain" \in DOMAIN OpAfter[1].v
    /\ OpAfter[1].v.domain # last_op.domain
    /\ load_cookie_cache(config_data, last_op.user, last_op.env, OpAfter[1].v.domain)
          # <<>>

\* C16: saving what load_cookie_cache returned, save_cookie_cache(u, e, d,
\* load_cookie_cache(u, e, d)), leaves the number of entries of the scope,
\* their names and the value of every entry as they were, and doing it a
\* second time changes nothing at all.
C16_SaveOfLoadKeepsEntries ==
    (/\ last_op.name = "save_cookie_cache"
     /\ last_op.cache =
           load_cookie_cache(config0, last_op.user, last_op.env, last_op.domain)) =>
        /\ Len(OpAfter) = Len(OpBefore)
        /\ \A i \in DOMAIN OpBefore :
              /\ OpAfter[i].k = OpBefore[i].k
              /\ ("value" \in DOMAIN OpAfter[i].v) = ("value" \in DOMAIN OpBefore[i].v)
              /\ "value" \in DOMAIN OpBefore[i].v =>
                    OpAfter[i].v.value = OpBefore[i].v.value
        /\ save_cookie_cache(config_data, last_op.user, last_op.env, last_op.domain,
                             load_cookie_cache(config_data, last_op.user, last_op.env,
                                               last_op.domain)) = config_data

\* a loaded entry was written back next to an entry the load had left out
C16_Witness ==
    /\ last_op.name = "save_cookie_cache"
    /\ last_op.cache =
          load_cookie_cache(config0, last_op.user, last_op.env, last_op.domain)
    /\ Len(last_op.cache) = 1
    /\ Len(OpBefore) = 2
    /\ OpAfter # OpBefore

\* the entries load_cookie_cache returned for the scope and domain of the
\* last call, from the store as it was before the call
OpLoaded == load_cookie_cache(config0, last_op.user, last_op.env, last_op.domain)

\* C17: get_valid_cookie_cache(u, e, d) returns exactly the entries of
\* load_cookie_cache(u, e, d) whose age at the time of the call is below
\* their TTL, in their order, and never changes the store: a second call at
\* the same time returns the same.
C17_ValidCacheIsPureFilter ==
    last_op.name = "get_valid_cookie_cache" =>
        LET Fresh(p) == now0 - p.v.timestamp < p.v.ttl_seconds
        IN  /\ op_result.raised = ""
            /\ op_result.value = SelectSeq(OpLoaded, Fresh)
            /\ config_data = config0
            /\ get_valid_cookie_cache(config_data, last_op.user, last_op.env,
                                      last_op.domain, now0) = op_result.value

\* of two loadable entries one had expired
C17_Witness ==
    /\ last_op.name = "get_valid_cookie_cache"
    /\ Len(OpLoaded) = 2
    /\ Len(op_result.value) = 1

\* C18: after prune_expired_cookies(u, e, d) the scope holds no cached entry
\* of domain d whose age at the time of the call has reached its TTL, and
\* every entry of another domain is still there, unchanged.
C18_PruneLeavesNoExpired ==
    last_op.name = "prune_expired_cookies" =>
        /\ \A i \in DOMAIN OpAfter :
              (IsCached(OpAfter[i].v) /\ OpAfter[i].v.domain = last_op.domain) =>
                 AgeAt(OpAfter[i].v, now0) < TtlOf(OpAfter[i].v)
        /\ \A i \in DOMAIN OpBefore :
              ~("domain" \in DOMAIN OpBefore[i].v
                /\ OpBefore[i].v.domain = last_op.domain) =>
                 \E j \in DOMAIN OpAfter : OpAfter[j] = OpBefore[i]

\* an expired entry of the domain went, an expired entry of another domain stayed
C18_Witness ==
    /\ last_op.name = "prune_expired_cookies"
    /\ Len(OpBefore) = 2
    /\ Len(OpAfter) = 1
    /\ IsCached(OpBefore[1].v)
    /\ OpBefore[1].v.domain = last_op.domain
    /\ AgeAt(OpBefore[1].v, now0) >= TtlOf(OpBefore[1].v)
    /\ OpAfter[1] = OpBefore[2]
    /\ IsCached(OpAfter[1].v)
    /\ AgeAt(OpAfter[1].v, now0) >= TtlOf(OpAfter[1].v)

\* C19: prune_expired_cookies(u, e, d) deletes only entries of domain d that
\* fail is_valid: every entry it removes had domain d and a parsed timestamp
\* whose age had reached the TTL; valid entries of d, rule-only entries of d
\* and entries of d whose timestamp cannot be parsed are all kept.
C19_PruneRemovesOnlyExpired ==
    last_op.name = "prune_expired_cookies" =>
        \A i \in DOMAIN OpBefore :
            (~\E j \in DOMAIN OpAfter : OpAfter[j] = OpBefore[i]) =>
                /\ IsCached(OpBefore[i].v)
                /\ OpBefore[i].v.domain = last_op.domain
                /\ AgeAt(OpBefore[i].v, now0) >= TtlOf(OpBefore[i].v)

\* the readers
Readers ==
    {"get_rules", "get_cache_entries", "load_cookie_cache", "get_valid_cookie_cache"}

\* C20: when the users level, the user, the env or the cookies level is
\* missing, get_rules, get_cache_entries, load_cookie_cache and
\* get_valid_cookie_cache return an empty collection and do not raise, as
\* they do on a scope with an empty cookies map, and leave the store alone.
C20_MissingLevelsReadEmpty ==
    (/\ last_op.name \in Readers
     /\ \/ path_missing(config0, last_op.user, last_op.env)
        \/ OpBefore = <<>>) =>
        /\ op_result = [raised |-> "", value |-> <<>>]
        /\ config_data = config0

\* a reader was called on a store without the users level
C20_Witness ==
    /\ last_op.name \in Readers
    /\ ~config0.has_users
    /\ op_result = [raised |-> "", value |-> <<>>]

\* the entries of the scope whose domain field is the domain of the last call
OpOfDomain ==
    LET OfDomain(p) == "domain" \in DOMAIN p.v /\ p.v.domain = last_op.domain
    IN  SelectSeq(OpBefore, OfDomain)

\* an entry holds a value and a timestamp, neither of them the sentinel "..."
HoldsValue(c) ==
    /\ {"value", "timestamp"} \subseteq DOMAIN c
    /\ c.value # "..."
    /\ c.timestamp.kind # "sentinel"

\* C21: get_rules returns one rule per entry of the scope whose domain field
\* equals the domain, in key insertion order, whatever the cache state of the
\* entry (sentinel, valueless and expired entries included);
\* load_cookie_cache and get_cache_entries return only entries of the domain
\* that have a value and a timestamp, neither equal to the sentinel "...",
\* and both return the same entries.
C21_RulesIgnoreCacheState ==
    /\ last_op.name = "get_rules" =>
          /\ Len(op_result.value) = Len(OpOfDomain)
          /\ \A i \in DOMAIN OpOfDomain :
                /\ op_result.value[i].name = OpOfDomain[i].k
                /\ op_result.value[i].domain = last_op.domain
    /\ last_op.name = "load_cookie_cache" =>
          \A i \in DOMAIN op_result.value :
              \E j \in DOMAIN OpOfDomain :
                  /\ OpOfDomain[j].k = op_result.value[i].k
                  /\ HoldsValue(OpOfDomain[j].v)
                  /\ OpOfDomain[j].v.value = op_result.value[i].v.value
    /\ last_op.name = "get_cache_entries" =>
          /\ Len(op_result.value) = Len(OpLoaded)
          /\ \A i \in DOMAIN OpLoaded :
                /\ op_result.value[i].value = OpLoaded[i].v.value
                /\ op_result.value[i].timestamp = OpLoaded[i].v.timestamp
                /\ op_result.value[i].ttl_seconds = OpLoaded[i].v.ttl_seconds

\* two rules of the domain, one of them without a cached value
C21_Witness ==
    /\ last_op.name = "get_rules"
    /\ Len(op_result.value) = 2
    /\ Len(OpLoaded) = 1
    /\ ~HoldsValue(OpOfDomain[1].v)

\* an entry's timestamp is a well-formed ISO-8601 text
WellFormed(c) == HoldsValue(c) /\ c.timestamp.kind = "iso"

\* C22: an entry whose timestamp cannot be parsed is left out of the results
\* of get_cache_entries, load_cookie_cache and get_valid_cookie_cache, none
\* of which raises, and every well-formed entry of the same scope and domain
\* is still returned (by get_valid_cookie_cache: if it has not expired).
C22_MalformedEntrySkipped ==
    LET Good == LET Is(p) == WellFormed(p.v) IN SelectSeq(OpOfDomain, Is)
        Live == LET Is(p) == AgeAt(p.v, now0) < TtlOf(p.v) IN SelectSeq(Good, Is)
    IN  /\ last_op.name \in {"get_cache_entries", "load_cookie_cache",
                             "get_valid_cookie_cache"} => op_result.raised = ""
        /\ last_op.name = "load_cookie_cache" =>
              /\ Len(op_result.value) = Len(Good)
              /\ \A i \in DOMAIN Good : op_result.value[i].k = Good[i].k
        /\ last_op.name = "get_cache_entries" =>
              /\ Len(op_result.value) = Len(Good)
              /\ \A i \in DOMAIN Good : op_result.value[i].value = Good[i].v.value
        /\ last_op.name = "get_valid_cookie_cache" =>
              /\ Len(op_result.value) = Len(Live)
              /\ \A i \in DOMAIN Live : op_result.value[i].k = Live[i].k

\* the first entry of the domain is malformed, the second one is returned
C22_Witness ==
    /\ last_op.name \in {"get_cache_entries", "load_cookie_cache"}
    /\ Len(OpOfDomain) = 2
    /\ HoldsValue(OpOfDomain[1].v)
    /\ OpOfDomain[1].v.timestamp.kind = "malformed"
    /\ Len(op_result.value) = 1
    /\ op_result.raised = ""

\* C23: save_cookie_cache(u, e, d, cache) merges into the scope: for every
\* name of cache the entry afterwards holds domain d, the given value and
\* the ISO-8601 text of the given timestamp; every entry whose name is not a
\* key of cache is as it was, and no other name appears.
C23_SaveMergesIntoScope ==
    last_op.name = "save_cookie_cache" =>
        /\ DictKeys(OpAfter) = DictKeys(OpBefore) \cup DictKeys(last_op.cache)
        /\ Len(OpAfter) >= Len(OpBefore)
        /\ \A i \in DOMAIN last_op.cache :
              /\ DictHas(OpAfter, last_op.cache[i].k)
              /\ DictGet(OpAfter, last_op.cache[i].k) =
                    [domain |-> last_op.domain,
                     value |-> last_op.cache[i].v.value,
                     timestamp |-> [kind |-> "iso",
                                    secs |-> last_op.cache[i].v.timestamp,
                                    tz |-> "utc"]]
        /\ \A i \in DOMAIN OpBefore :
              ~DictHas(last_op.cache, OpBefore[i].k) => OpAfter[i] = OpBefore[i]

\* a cache that was not loaded from the scope overwrote one of two entries
C23_Witness ==
    /\ last_op.name = "save_cookie_cache"
    /\ last_op.cache # OpLoaded
    /\ Len(last_op.cache) = 1
    /\ Len(OpBefore) = 2
    /\ OpBefore[2].k = last_op.cache[1].k
    /\ OpAfter[2] # OpBefore[2]
    /\ OpAfter[1] = OpBefore[1]

\* the names the last call wrote
OpWritten ==
    IF last_op.name = "update_cookie_cache" THEN {last_op.cookie}
    ELSE IF last_op.name = "save_cookie_cache" THEN DictKeys(last_op.cache)
    ELSE {}

\* the value the last call wrote for name x
OpWrittenValue(x) ==
    IF last_op.name = "update_cookie_cache" THEN last_op.value
    ELSE DictGet(last_op.cache, x).value

AllDomains == {Str_b_c, Str_a_b_c, Str_d_c}

\* C24: a cookie name belongs to at most one domain within a scope.  No
\* scope holds a name under two domains, and after update_cookie_cache or
\* save_cookie_cache has written name x for domain B, load_cookie_cache of
\* every other domain does not contain x and load_cookie_cache of B contains
\* it with the new value.
C24_NameHasOneDomain ==
    /\ \A u \in Users, e \in Envs, x \in StoreNames :
          Cardinality({d \in AllDomains :
                          DictHas(load_cookie_cache(config_data, u, e, d), x)}) <= 1
    /\ \A x \in OpWritten :
          /\ \A d \in AllDomains \ {last_op.domain} :
                ~DictHas(load_cookie_cache(config_data, last_op.user, last_op.env, d), x)
          /\ DictHas(load_cookie_cache(config_data, last_op.user, last_op.env,
                                       last_op.domain), x)
          /\ DictGet(load_cookie_cache(config_data, last_op.user, last_op.env,
                                       last_op.domain), x).value = OpWrittenValue(x)

\* the name was held for another domain before the call
C24_Witness ==
    /\ last_op.name \in {"update_cookie_cache", "save_cookie_cache"}
    /\ \E x \in OpWritten :
          \E d \in AllDomains \ {last_op.domain} :
              /\ DictHas(load_cookie_cache(config0, last_op.user, last_op.env, d), x)
              /\ DictHas(load_cookie_cache(config_data, last_op.user, last_op.env,
                                           last_op.domain), x)

\* C25: no cookie handed to the driver's add_cookie by
\* write_cookies_to_browser carries a domain field: each add_cookie argument
\* is a cookie of the input list without its domain key, and the input
\* cookies keep their domain.
C25_NoDomainOnWrite ==
    /\ \A i \in DOMAIN calls :
          calls[i].op = "add_cookie" =>
              /\ Len(calls[i].result) = 1
              /\ "domain" \notin DOMAIN calls[i].result[1]
              /\ \E k \in DOMAIN cookies_to_inject.list :
                    calls[i].result[1] =
                       [name  |-> cookies_to_inject.list[k].name,
                        value |-> cookies_to_inject.list[k].value]
    /\ \A k \in DOMAIN cookies_to_inject.list :
          /\ "domain" \in DOMAIN cookies_to_inject.list[k]
          /\ cookies_to_inject.list[k].domain =
                DictGet(valid_cache, cookies_to_inject.list[k].name).domain

\* a cookie cached for a domain went to add_cookie, and the call has returned
C25_Witness ==
    /\ pc = "done"
    /\ \E i \in DOMAIN calls :
          /\ calls[i].op = "add_cookie"
          /\ calls[i].ok
          /\ \E k \in DOMAIN cookies_to_inject.list :
                /\ cookies_to_inject.list[k].name = calls[i].name
                /\ cookies_to_inject.list[k].domain # <<>>

\* the last characters of s are the characters of d
IsSuffix(d, s) ==
    /\ Len(d) <= Len(s)
    /\ SubSeq(s, Len(s) - Len(d) + 1, Len(s)) = d

\* C26: a call of read_cookies_from_browser(driver, domain) that returns
\* makes exactly one get_cookies call, leaves the browser's cookies alone and
\* returns, in the driver's order, exactly those of the browser's cookies
\* whose domain field ends with the requested domain.
C26_ReadReturnsSuffixMatches ==
    [][ri' = ri + 1 =>
          /\ Len(calls') = Len(calls) + 1
          /\ SubSeq(calls', 1, Len(calls)) = calls
          /\ calls'[Len(calls')].op = "get_cookies"
          /\ calls'[Len(calls')].domain = target_domains[ri]
          /\ LET Match(c) == IsSuffix(target_domains[ri], c.domain)
             IN  calls'[Len(calls')].result = SelectSeq(jar, Match)
          /\ jar' = jar]_vars

\* a read for b.c returned the cookie of a.b.c and left out the one of d.c
C26_Witness ==
    /\ drops = 0
    /\ \E j \in DOMAIN jar : jar[j].domain = Str_d_c
    /\ \E i \in DOMAIN calls :
          /\ calls[i].op = "get_cookies"
          /\ calls[i].ok
          /\ calls[i].domain = Str_b_c
          /\ Len(calls[i].result) = 2
          /\ calls[i].result[1].domain = Str_a_b_c
          /\ calls[i].result[2].domain = Str_b_c

\* C29: in one run of inject_and_verify_cookies the read capability is
\* invoked exactly once per distinct domain value among the cookie rules of
\* the scope, however many rules share a domain.
C29_OneReadPerDistinctDomain ==
    pc = "done" =>
        /\ {calls[i].domain : i \in {k \in DOMAIN calls : calls[k].op = "get_cookies"}} =
              {ScopeCookies(config0)[i].v.domain : i \in DOMAIN ScopeCookies(config0)}
        /\ \A i, j \in DOMAIN calls :
              (/\ calls[i].op = "get_cookies"
               /\ calls[j].op = "get_cookies"
               /\ calls[i].domain = calls[j].domain) => i = j

-----------------------------------------------------------------------------
(* Vocabulary of the properties of a launch *)

CacheCalled == last_op.name = "cache_cookies_for_session"

CacheReads == CallsOf({"get_cookies"})

CacheUpdates == CallsOf({"update_cookie_cache"})

\* every read of the call returned: the call ended without an error, or the
\* error came from the write of the file
CacheReadAll ==
    \/ op_result.value.error = ""
    \/ op_result.value.error \in {"PermissionError", "OSError"}

\* C30: a call of cache_cookies_for_session whose reads all return reads the
\* browser once per distinct rule domain of the scope.  Given a CookieConfig,
\* it calls update_cookie_cache exactly once for each rule name that occurs
\* among the cookies read and for no other name, with the value of the first
\* occurrence of the name, which is the value the store then holds.
C30_CacheOncePerTrackedName ==
    (CacheCalled /\ CacheReadAll) =>
        /\ {CacheReads[i].domain : i \in DOMAIN CacheReads} =
              {ScopeCookies(config0)[i].v.domain : i \in DOMAIN ScopeCookies(config0)}
        /\ \A i, j \in DOMAIN CacheReads :
              CacheReads[i].domain = CacheReads[j].domain => i = j
        /\ \A i \in DOMAIN CacheReads : CacheReads[i].ok
        /\ last_op.cookie = "CookieConfig" =>
              /\ \A x \in DictKeys(ScopeCookies(config0)) :
                    Cardinality({i \in DOMAIN CacheUpdates : CacheUpdates[i].name = x}) =
                       (IF IsObserved(x) THEN 1 ELSE 0)
              /\ \A i \in DOMAIN CacheUpdates :
                    /\ CacheUpdates[i].name \in DictKeys(ScopeCookies(config0))
                    /\ IsObserved(CacheUpdates[i].name)
                    /\ CacheUpdates[i].value = FirstObserved(CacheUpdates[i].name).value
                    /\ DictGet(ScopeCookies(config_data), CacheUpdates[i].name).value =
                          CacheUpdates[i].value

\* two rule domains were read; a tracked name came back twice with different
\* values next to an untracked cookie, and was cached once
C30_Witness ==
    /\ CacheCalled
    /\ op_result.value.report = "cached"
    /\ Len(CacheReads) = 2
    /\ Len(CacheUpdates) < Len(Observed)
    /\ \E i, j \in DOMAIN Observed :
          /\ i < j
          /\ Observed[i].name = Observed[j].name
          /\ Observed[i].value # Observed[j].value
          /\ Observed[i].name \in DictKeys(ScopeCookies(config0))
    /\ \E i \in DOMAIN Observed :
          Observed[i].name \notin DictKeys(ScopeCookies(config0))

\* C31: every update issued by cache_cookies_for_session carries the domain
\* configured in the rule of its cookie name, not the domain the browser
\* reported, and after the call every entry of the scope has the domain it
\* had before.
C31_CacheKeepsRuleDomains ==
    CacheCalled =>
        /\ \A i \in DOMAIN CacheUpdates :
              /\ CacheUpdates[i].name \in DictKeys(ScopeCookies(config0))
              /\ CacheUpdates[i].domain =
                    DictGet(ScopeCookies(config0), CacheUpdates[i].name).domain
        /\ ~path_missing(config0, user, env) =>
              /\ DictKeys(ScopeCookies(config_data)) = DictKeys(ScopeCookies(config0))
              /\ \A x \in DictKeys(ScopeCookies(config0)) :
                    "domain" \in DOMAIN DictGet(ScopeCookies(config0), x) =>
                       /\ "domain" \in DOMAIN DictGet(ScopeCookies(config_data), x)
                       /\ DictGet(ScopeCookies(config_data), x).domain =
                             DictGet(ScopeCookies(config0), x).domain

\* a cookie the browser reported under a subdomain of its rule's domain was
\* cached
C31_Witness ==
    /\ CacheCalled
    /\ op_result.value.report = "cached"
    /\ \E i \in DOMAIN CacheUpdates :
          /\ FirstObserved(CacheUpdates[i].name).domain # CacheUpdates[i].domain
          /\ DictGet(ScopeCookies(config_data), CacheUpdates[i].name).value =
                CacheUpdates[i].value
          /\ DictGet(ScopeCookies(config_data), CacheUpdates[i].name).value #
                DictGet(ScopeCookies(config0), CacheUpdates[i].name).value

\* C32: a call of cache_cookies_for_session with cookie_config = None that
\* finds a tracked cookie in the browser reports the missing CookieConfig and
\* returns: it raises nothing, issues no update, leaves every cache entry as
\* it was and does not write the config file.
C32_NoConfigNoUpdateNoWrite ==
    [][(/\ op_count' = op_count + 1
        /\ last_op'.name = "cache_cookies_for_session"
        /\ last_op'.cookie = "None"
        /\ op_result'.value.cookies # <<>>) =>
           /\ op_result'.value.report = "no_config"
           /\ op_result'.raised = ""
           /\ \A i \in DOMAIN calls' : calls'[i].op = "get_cookies"
           /\ config_data' = config_data
           /\ config_file' = config_file]_vars

\* the call found the tracked cookie of the scope and had no CookieConfig
C32_Witness ==
    /\ CacheCalled
    /\ last_op.cookie = "None"
    /\ op_result.value.report = "no_config"
    /\ \E x \in DictKeys(ScopeCookies(config0)) : IsObserved(x)
    /\ CacheUpdates = <<>>
    /\ config_data = config0

\* the attempts of driver.close()
CloseCalls == CallsOf({"close"})

\* C33: the loop of launch is left only by EOF, Ctrl+D, 'q', an EOFError or
\* an exception of the screenshot capture: the keys 's', 'c' and the
\* unrecognised keys never leave it.  On every path that leaves the loop
\* driver.close() is attempted exactly once, and launch ends the same way
\* whether close raised or not.
C33_CloseOnceOnEveryExit ==
    [][/\ (pc = "loop" /\ pc' # "loop") =>
             /\ pc' = "finally"
             /\ last_op'.name = "key"
             /\ last_op'.value \in {"q", "EOFError", "enter"}
       /\ pc = "finally" =>
             /\ pc' = (IF op_result.raised = "" THEN "closed" ELSE "failed")
             /\ Len(CloseCalls') = 1
       /\ pc' \notin {"closed", "failed"} => CloseCalls' = <<>>]_vars

\* C34: inject_and_verify_cookies never changes the domain of a store entry:
\* when the call has ended, every cookie of the scope has the domain it had
\* before the call, also when the browser reported the matched cookie under
\* a subdomain of the rule's domain.
C34_InjectKeepsDomains ==
    (Ended /\ ~path_missing(config0, user, env)) =>
        \A x \in DictKeys(ScopeCookies(config0)) :
            "domain" \in DOMAIN DictGet(ScopeCookies(config0), x) =>
               /\ DictHas(ScopeCookies(config_data), x)
               /\ "domain" \in DOMAIN DictGet(ScopeCookies(config_data), x)
               /\ DictGet(ScopeCookies(config_data), x).domain =
                     DictGet(ScopeCookies(config0), x).domain

\* C35: save_cookie_cache preserves the TTL of the entries it writes: after
\* save_cookie_cache(u, e, d, load_cookie_cache(u, e, d)) a following
\* load_cookie_cache(u, e, d) returns every saved entry with the ttl_seconds
\* it was loaded with, so that the entry is valid at the same times as before.
C35_SaveOfLoadKeepsTTL ==
    (/\ last_op.name = "save_cookie_cache"
     /\ last_op.cache = OpLoaded) =>
        LET after == load_cookie_cache(config_data, last_op.user, last_op.env,
                                       last_op.domain)
        IN  \A i \in DOMAIN OpLoaded :
               /\ DictHas(after, OpLoaded[i].k)
               /\ DictGet(after, OpLoaded[i].k).ttl_seconds = OpLoaded[i].v.ttl_seconds
               /\ \A t \in now0..(now0 + MaxTicks) :
                     is_valid(DictGet(after, OpLoaded[i].k), t) =
                        is_valid(OpLoaded[i].v, t)

\* C36: whenever inject_and_verify_cookies raises, the store is exactly as it
\* was before the call and no update was issued; the cache is updated only
\* in a call that returns, after each of its reads has returned.
C36_RaiseLeavesStoreUntouched ==
    /\ pc = "raised" =>
          /\ raised # ""
          /\ config_data = config0
          /\ CallsOf({"update_cookie_cache"}) = <<>>
    /\ (config_data # config0 \/ CallsOf({"update_cookie_cache"}) # <<>>) =>
          /\ pc = "done"
          /\ raised = ""
          /\ Len(CallsOf({"get_cookies"})) = Len(target_domains)
          /\ \A i \in DOMAIN CallsOf({"get_cookies"}) : CallsOf({"get_cookies"})[i].ok

\* a first read had returned a tracked cookie with a value the store did not
\* hold, and a later read raised
C36_Witness ==
    /\ pc = "raised"
    /\ Len(CallsOf({"get_cookies"})) = 2
    /\ \E i \in DOMAIN browser_cookies :
          /\ DictHas(ScopeCookies(config0), browser_cookies[i].name)
          /\ DictGet(ScopeCookies(config0), browser_cookies[i].name).value #
                browser_cookies[i].value

\* the calls one iteration of the write loop has added to the history
WrittenNow(before, after) == SubSeq(after, Len(before) + 1, Len(after))

\* C37: for each cookie of the batch write_cookies_to_browser looks the name
\* up first, calls delete_cookie only when the browser holds a cookie of that
\* name and always before add_cookie, and calls add_cookie at most once as
\* the last call; if the injection of the cookie fails, the browser still
\* holds every cookie of that name it held before.
C37_WriteOrderAndFailureKeepsCookie ==
    [][(pc = "write" /\ calls' # calls) =>
          LET new   == WrittenNow(calls, calls')
              name  == cookies_to_inject.list[wi].name
              added == new[Len(new)].op = "add_cookie" /\ new[Len(new)].ok
          IN  /\ new[1].op = "get_cookie"
              /\ \A i \in DOMAIN new : new[i].name = name
              /\ \A i \in DOMAIN new :
                    new[i].op = "delete_cookie" =>
                       /\ i = 2
                       /\ new[1].ok
                       /\ \E k \in DOMAIN jar : jar[k].name = name
              /\ \A i \in DOMAIN new : new[i].op = "add_cookie" => i = Len(new)
              /\ ~added =>
                    \A k \in DOMAIN jar :
                       jar[k].name = name =>
                          \E m \in DOMAIN jar' : jar'[m] = jar[k]]_vars

\* C38: when the save step of cache_cookies_for_session fails, whether the
\* opening of the config file or the serialising of the tree raises, the
\* config file keeps its previous content, nothing is raised to the loop,
\* and the cache updates made before the save attempt stay in memory.
C38_FailedSaveKeepsFile ==
    [][(/\ op_count' = op_count + 1
        /\ last_op'.name = "cache_cookies_for_session"
        /\ op_result'.value.error \in {"PermissionError", "OSError"}) =>
           /\ config_file' = config_file
           /\ op_result'.raised = ""
           /\ pc' = "loop"
           /\ config_data' = cache_updates(config_data, user, env,
                                           op_result'.value.cookies, now)]_vars

\* the entry of name x that load_cookie_cache returns for some domain is
\* valid at time t in the tree cd
ValidIn(cd, u, e, x, t) ==
    \E d \in AllDomains :
        LET cache == load_cookie_cache(cd, u, e, d)
        IN  DictHas(cache, x) /\ is_valid(DictGet(cache, x), t)

\* the step is a call that wrote name x in the scope
Replaces(u, e, x) ==
    /\ op_count' = op_count + 1
    /\ last_op'.name \in {"update_cookie_cache", "save_cookie_cache"}
    /\ last_op'.user = u
    /\ last_op'.env = e
    /\ \/ last_op'.name = "update_cookie_cache" /\ last_op'.cookie = x
       \/ last_op'.name = "save_cookie_cache" /\ DictHas(last_op'.cache, x)

\* the times the clock can still show
LaterTimes == now'..(StartTime + MaxTicks + 1)

\* C39: validity of a cache entry is monotone in time.  An entry that is
\* expired now is expired at every later time, and stays so across every
\* step (a read, a clear, a prune, the passing of time, a write of another
\* name) but a step in which update_cookie_cache or save_cookie_cache
\* replaces this entry; and a read at a later time does not report it valid.
C39_ValidityIsMonotone ==
    [][\A u \in StoreUsers, e \in Envs, d \in AllDomains :
          LET cache == load_cookie_cache(config_data, u, e, d)
          IN  \A i \in DOMAIN cache :
                 (~is_valid(cache[i].v, now) /\ ~Replaces(u, e, cache[i].k)) =>
                    /\ \A t \in LaterTimes :
                          /\ ~is_valid(cache[i].v, t)
                          /\ ~ValidIn(config_data', u, e, cache[i].k, t)
                    /\ (/\ op_count' = op_count + 1
                        /\ last_op'.name = "get_valid_cookie_cache"
                        /\ last_op'.user = u
                        /\ last_op'.env = e) =>
                          ~DictHas(op_result'.value, cache[i].k)
                    /\ (/\ op_count' = op_count + 1
                        /\ last_op'.name = "is_valid"
                        /\ last_op'.cache = <<cache[i]>>
                        /\ now_or(last_op'.t, now) >= now) =>
                          op_result'.value = FALSE]_vars

\* an entry that was valid expired with the passing of time, and a prune of
\* another domain then left it in the store, still expired
C39_Witness ==
    /\ now > StartTime
    /\ last_op.name = "prune_expired_cookies"
    /\ \E i \in DOMAIN OpAfter :
          /\ IsCached(OpAfter[i].v)
          /\ OpAfter[i].v.domain # last_op.domain
          /\ ~ValidIn(config_data, last_op.user, last_op.env, OpAfter[i].k, now)
          /\ ValidIn(config0, last_op.user, last_op.env, OpAfter[i].k, StartTime)

====
